---- MODULE Spec2Model ----
(***************************************************************************)
(* A model of the reply-platform-api worker: the D1 tables of the schema,  *)
(* the route handlers of auth, organizations, agents, usage and websites,  *)
(* and the store's clock.  Every handler is cut at its awaited D1 calls:   *)
(* one action per awaited statement (or per run of statements no other     *)
(* request can observe), so that requests interleave where the worker's    *)
(* requests interleave.                                                    *)
(***************************************************************************)
EXTENDS Integers, Sequences, FiniteSets, TLC

VARIABLES
    env,                   \* the worker's bindings: JWT_SECRET
    now,                   \* wall clock, milliseconds since day 0, 00:00:00.000 UTC
    advances,              \* number of clock advances taken so far
    users,                 \* table users
    otp_codes,             \* table otp_codes
    organizations,         \* table organizations
    organization_members,  \* table organization_members
    agents,                \* table agents
    usage_records,         \* table usage_records
    websites,              \* table websites
    ids,                   \* per table, the number of ids generated so far
    req,                   \* the requests in flight, one per slot
    last,                  \* the response just sent (NoResponse after any other step)
    verified,              \* history: <<email, code>> pairs a verify has succeeded for
    granted                \* history: the ids of the otp records a token was returned for

vars == <<env, now, advances, users, otp_codes, organizations, organization_members,
          agents, usage_records, websites, ids, req, last, verified, granted>>

store == <<users, otp_codes, organizations, organization_members, agents,
           usage_records, websites>>

-----------------------------------------------------------------------------
(* Bounds of the model *)

MaxOtp == 2          \* OTP records ever issued
MaxAdvances == 2     \* clock advances
MaxOrgs == 2         \* organizations ever created
MaxSeeded == 1       \* membership rows ever written from outside the routes
MaxAgents == 1       \* agents ever created

Slots == {1, 2}      \* the requests in flight at once

Emails == {"a@x.io", "b@x.io"}
Codes == {"123456", "654321"}
NoValue == "<none>"          \* an absent or empty request field, a NULL column
NoId == 0                    \* the same, where the field or column holds an id

\* The steps the clock takes: just under the cooldown, and a quarter of an
\* hour.  The clock starts at 23:40:00.500 of day 1: one long step stays
\* within the day, a second one passes midnight.
ClockSteps == {59500, 900000}
StartTimes == {((24 + 23) * 60 + 40) * 60 * 1000 + 500}

-----------------------------------------------------------------------------
(* Time and its two textual forms *)

MsPerSecond == 1000
MsPerDay == 24 * 60 * 60 * 1000
OtpLifetimeMs == 10 * 60 * 1000
CooldownMs == 60 * 1000

CharT == 84        \* 'T', the date/time separator of Date.prototype.toISOString
CharSpace == 32    \* ' ', the date/time separator of SQLite's datetime()

\* A timestamp string is modelled field by field: the zero-padded date, the
\* separator character, the zero-padded time of day in seconds and, in the
\* ISO form, the milliseconds.  Fixed-width zero-padded fields compare as
\* their numbers do, so comparing the field sequences lexicographically is
\* comparing the strings byte by byte.
toISOString(t) ==
    <<t \div MsPerDay, CharT, (t % MsPerDay) \div MsPerSecond, t % MsPerSecond>>

datetime(t) ==
    <<t \div MsPerDay, CharSpace, (t % MsPerDay) \div MsPerSecond>>

\* The instant an ISO string denotes.
ParseISO(s) == s[1] * MsPerDay + s[3] * MsPerSecond + s[4]

\* SQLite's comparison of two TEXT values (BINARY collation: memcmp, then length).
RECURSIVE TextGreaterFrom(_, _, _)
TextGreaterFrom(a, b, i) ==
    IF i > Len(b) THEN i <= Len(a)
    ELSE IF i > Len(a) THEN FALSE
    ELSE IF a[i] > b[i] THEN TRUE
    ELSE IF a[i] < b[i] THEN FALSE
    ELSE TextGreaterFrom(a, b, i + 1)

TextGreater(a, b) == TextGreaterFrom(a, b, 1)

-----------------------------------------------------------------------------
(* Requests and responses *)

Idle == [op |-> "idle", pc |-> "idle", args |-> <<>>, loc |-> <<>>]
NoResponse == [op |-> "none"]

Truthy(v) == v # NoValue

\* A response stays the last one until it has left the worker; no statement of
\* another request is placed between the return and the delivery.
Respond(s, op, args, resp) ==
    /\ last = NoResponse
    /\ req' = [req EXCEPT ![s] = Idle]
    /\ last' = [op |-> op, args |-> args, resp |-> resp]

Continue(s, r) ==
    /\ last = NoResponse
    /\ req' = [req EXCEPT ![s] = r]
    /\ last' = NoResponse

ErrorResponse(status, msg) == [status |-> status, error |-> msg]

\* The response leaves the worker.
Deliver ==
    /\ last # NoResponse
    /\ last' = NoResponse
    /\ UNCHANGED <<env, now, advances, store, ids, req, verified, granted>>

-----------------------------------------------------------------------------
(* Strings, bytes and the failures of the platform functions *)

\* A string is a sequence of characters and a byte string a sequence of
\* bytes.  A character or byte is a record: a plain one carries its code in x
\* (mac is empty, i is 0); one that comes from an HMAC tag or a digest
\* carries that in mac, its position in it (its byte, or its base64
\* character) in i, and in x the bits in which it differs from the tag's own
\* value there.
Lit(c) == [mac |-> <<>>, i |-> 0, x |-> c]

Str(text) == [k \in 1..Len(text) |-> Lit(text[k])]

CodesOf(str) == [k \in 1..Len(str) |-> str[k].x]

\* What an awaited platform call gives: a value, or an exception.
Ok(v) == [ok |-> TRUE, value |-> v]
Thrown == [ok |-> FALSE, value |-> <<>>]

CharDot == 46         \* '.'
CharEquals == 61      \* '='
CharQuote == 34       \* '"'
CharBackslash == 92   \* '\'
Latin1Max == 255      \* the largest code btoa accepts
TagBytes == 32        \* the length of an HMAC-SHA-256 tag and of a SHA-256 digest

\* The texts the code names, as character codes.
Text ==
    [alg |-> <<97, 108, 103>>, HS256 |-> <<72, 83, 50, 53, 54>>,
     typ |-> <<116, 121, 112>>, JWT |-> <<74, 87, 84>>,
     userId |-> <<117, 115, 101, 114, 73, 100>>, email |-> <<101, 109, 97, 105, 108>>,
     undefined |-> <<117, 110, 100, 101, 102, 105, 110, 101, 100>>,
     Bearer |-> <<66, 101, 97, 114, 101, 114, 32>>]

\* The value of a property an object does not have.
Undefined == <<-1>>

-----------------------------------------------------------------------------
(* btoa and atob *)

\* A-Z, a-z, 0-9, '+', '/': the character of the value v is at place v + 1.
Base64Alphabet ==
    [v \in 1..64 |-> IF v <= 26 THEN 64 + v
                     ELSE IF v <= 52 THEN 70 + v
                     ELSE IF v <= 62 THEN v - 5
                     ELSE IF v = 63 THEN 43 ELSE 47]

\* The m bits from bit k on of a sequence of n-bit values, most significant
\* bit first and 0 past the end, as a number.
RECURSIVE BitsValue(_, _, _, _)
BitsValue(values, n, k, m) ==
    IF m = 0 THEN 0
    ELSE (IF k > n * Len(values) THEN 0
          ELSE (values[((k - 1) \div n) + 1] \div (2 ^ (n - 1 - ((k - 1) % n)))) % 2)
         * (2 ^ (m - 1))
         + BitsValue(values, n, k + 1, m - 1)

\* The bits of a sequence of n-bit values, cut again into count m-bit values.
Regroup(values, n, m, count) ==
    [j \in 1..count |-> BitsValue(values, n, (j - 1) * m + 1, m)]

\* btoa: a character above U+00FF is an InvalidCharacterError; each three
\* bytes give four characters, the last group filled with zero bits and '='.
\* Flipping bits of the bytes flips the same bits of the characters.
btoa(str) ==
    LET n == Len(str)
        count == (8 * n + 5) \div 6
        values == Regroup(CodesOf(str), 8, 6, count)
        padding == [k \in 1..((3 - (n % 3)) % 3) |-> Lit(CharEquals)]
    IN  IF \A k \in 1..n : str[k].mac = <<>>
        THEN IF \E k \in 1..n : str[k].x > Latin1Max
             THEN Thrown
             ELSE Ok([k \in 1..count |-> Lit(Base64Alphabet[values[k] + 1])] \o padding)
        ELSE Ok([k \in 1..count |-> [mac |-> str[1].mac, i |-> k, x |-> values[k]]]
                \o padding)

\* atob, the forgiving base64 decode: ASCII whitespace is removed, then one or
\* two '=' at the end of a multiple of four; a remaining length of 4k+1 or a
\* character outside the alphabet is an InvalidCharacterError.  Each
\* character gives six bits, each eight bits a byte, and the bits left over
\* after the last whole byte are dropped unread.  Characters that are not the
\* characters of one tag in their places decode to bytes that are no tag's.
atob(str) ==
    LET NoSpace(u) == ~(u.mac = <<>> /\ u.x \in {9, 10, 12, 13, 32})
        stripped == SelectSeq(str, NoSpace)
        m == Len(stripped)
        body == IF m > 0 /\ m % 4 = 0 /\ stripped[m] = Lit(CharEquals)
                THEN IF stripped[m - 1] = Lit(CharEquals)
                     THEN SubSeq(stripped, 1, m - 2)
                     ELSE SubSeq(stripped, 1, m - 1)
                ELSE stripped
        n == Len(body)
        count == (6 * n) \div 8
        InAlphabet(c) == \E v \in 1..64 : Base64Alphabet[v] = c
        ValueOf(c) == (CHOOSE v \in 1..64 : Base64Alphabet[v] = c) - 1
        bits == Regroup(CodesOf(body), 6, 8, count)
    IN  IF n % 4 = 1 \/ \E k \in 1..n : body[k].mac = <<>> /\ ~InAlphabet(body[k].x)
        THEN Thrown
        ELSE IF \A k \in 1..n : body[k].mac = <<>>
        THEN Ok(Str(Regroup([k \in 1..n |-> ValueOf(body[k].x)], 6, 8, count)))
        ELSE IF \A k \in 1..n : body[k].mac = body[1].mac /\ body[k].i = k
        THEN Ok([k \in 1..count |-> [mac |-> body[1].mac, i |-> k, x |-> bits[k]]])
        ELSE Ok([k \in 1..count |-> Lit(0)])

-----------------------------------------------------------------------------
(* JSON.stringify and JSON.parse *)

\* The texts of the model hold no control characters and no whitespace: the
\* characters JSON escapes in them are the quote and the backslash.
RECURSIVE Escape(_)
Escape(text) ==
    IF text = <<>> THEN <<>>
    ELSE (IF Head(text) = CharQuote \/ Head(text) = CharBackslash
          THEN <<CharBackslash, Head(text)>>
          ELSE <<Head(text)>>)
         \o Escape(Tail(text))

RECURSIVE StringifyMembers(_)
StringifyMembers(members) ==
    IF members = <<>> THEN <<>>
    ELSE <<CharQuote>> \o Escape(Head(members)[1]) \o <<CharQuote, 58, CharQuote>>
         \o Escape(Head(members)[2]) \o <<CharQuote>>
         \o (IF Len(members) > 1 THEN <<44>> ELSE <<>>)
         \o StringifyMembers(Tail(members))

\* JSON.stringify of an object whose properties are strings, in property order.
Stringify(members) == <<123>> \o StringifyMembers(members) \o <<125>>

\* A string literal read from position i, its opening quote; acc is what has
\* been read of it.
RECURSIVE ParseString(_, _, _)
ParseString(text, i, acc) ==
    IF i > Len(text) THEN [ok |-> FALSE, value |-> <<>>, next |-> i]
    ELSE IF acc = <<>> /\ text[i] # CharQuote THEN [ok |-> FALSE, value |-> <<>>, next |-> i]
    ELSE IF acc = <<>> THEN ParseString(text, i + 1, <<CharQuote>>)
    ELSE IF text[i] = CharQuote THEN [ok |-> TRUE, value |-> Tail(acc), next |-> i + 1]
    ELSE IF text[i] # CharBackslash THEN ParseString(text, i + 1, Append(acc, text[i]))
    ELSE IF i + 1 <= Len(text) /\ text[i + 1] \in {CharQuote, CharBackslash}
    THEN ParseString(text, i + 2, Append(acc, text[i + 1]))
    ELSE [ok |-> FALSE, value |-> <<>>, next |-> i]

\* The members of an object read from position i, just after '{' or ','.
RECURSIVE ParseMembers(_, _, _)
ParseMembers(text, i, acc) ==
    LET key == ParseString(text, i, <<>>)
        val == ParseString(text, key.next + 1, <<>>)
    IN  IF ~key.ok \/ key.next > Len(text) \/ text[key.next] # 58 \/ ~val.ok
           \/ val.next > Len(text)
        THEN Thrown
        ELSE IF text[val.next] = 125
        THEN IF val.next = Len(text) THEN Ok(Append(acc, <<key.value, val.value>>))
                                     ELSE Thrown
        ELSE IF text[val.next] = 44
        THEN ParseMembers(text, val.next + 1, Append(acc, <<key.value, val.value>>))
        ELSE Thrown

\* JSON.parse: an object whose properties are strings gives its members,
\* anything else that the model's texts can spell is a SyntaxError.
Parse(text) ==
    IF Len(text) < 2 \/ text[1] # 123 THEN Thrown
    ELSE IF text = <<123, 125>> THEN Ok(<<>>)
    ELSE ParseMembers(text, 2, <<>>)

\* Reading a property: the last member of that name, or undefined.
Member(members, name) ==
    LET at == {k \in 1..Len(members) : members[k][1] = name}
    IN  IF at = {} THEN Undefined
        ELSE members[CHOOSE k \in at : \A j \in at : j <= k][2]

-----------------------------------------------------------------------------
(* HMAC *)

\* TextEncoder.encode: the UTF-8 bytes of a plain string.
RECURSIVE Utf8(_)
Utf8(text) ==
    IF text = <<>> THEN <<>>
    ELSE LET c == Head(text)
         IN  (IF c < 128 THEN <<c>>
              ELSE IF c < 2048 THEN <<192 + (c \div 64), 128 + (c % 64)>>
              ELSE <<224 + (c \div 4096), 128 + ((c \div 64) % 64), 128 + (c % 64)>>)
             \o Utf8(Tail(text))

\* crypto.subtle.importKey('raw', encoder.encode(secret), HMAC): encode gives
\* no bytes for undefined as for the empty string, and a key of no bytes is a
\* DataError.  HMAC fills a key shorter than the hash's block with zero
\* bytes, so keys that differ only in zero bytes at the end are one key; the
\* secrets of the model are shorter than a block.
importKey(secret) ==
    LET bytes == IF secret = Undefined THEN <<>> ELSE Utf8(secret)
        used == {k \in 1..Len(bytes) : bytes[k] # 0}
    IN  IF bytes = <<>> THEN Thrown
        ELSE Ok(SubSeq(bytes, 1, IF used = {} THEN 0
                                 ELSE CHOOSE k \in used : \A j \in used : j <= k))

\* crypto.subtle.sign('HMAC', key, data): the tag is a function of the key
\* and the data, and tags of different pairs differ in every byte the model
\* compares (no collision is found).
HmacSign(key, data) ==
    LET tag == <<key, Utf8(CodesOf(data))>>
    IN  [k \in 1..TagBytes |-> [mac |-> tag, i |-> k, x |-> 0]]

\* A check of the signature's length alone.
LengthVerify(key, signature, data) == Len(signature) = TagBytes

\* crypto.subtle.verify('HMAC', key, signature, data)
HmacVerify(key, signature, data) == signature = HmacSign(key, data)

-----------------------------------------------------------------------------
(* Tokens *)

JWT_SECRET == <<115, 101, 99, 114, 101, 116>>     \* "secret"

\* What the binding may hold: the secret, the empty string, or nothing.
Bindings == {JWT_SECRET, <<>>, Undefined}

Header == <<<<Text.alg, Text.HS256>>, <<Text.typ, Text.JWT>>>>

Members(payload) == <<<<Text.userId, payload.userId>>, <<Text.email, payload.email>>>>

\* signJWT: the token, or the exception of btoa or importKey.
signJWT(payload, secret) ==
    LET encodedHeader == btoa(Str(Stringify(Header)))
        encodedPayload == btoa(Str(Stringify(Members(payload))))
        data == encodedHeader.value \o <<Lit(CharDot)>> \o encodedPayload.value
        key == importKey(secret)
        encodedSignature == btoa(HmacSign(key.value, data))
    IN  IF ~encodedHeader.ok \/ ~encodedPayload.ok \/ ~key.ok THEN Thrown
        ELSE Ok(data \o <<Lit(CharDot)>> \o encodedSignature.value)

\* String.prototype.split with a one-character separator.
RECURSIVE Split(_, _)
Split(str, sep) ==
    IF \A k \in 1..Len(str) : str[k] # Lit(sep) THEN <<str>>
    ELSE LET at == CHOOSE k \in 1..Len(str) :
                       str[k] = Lit(sep) /\ \A j \in 1..(k - 1) : str[j] # Lit(sep)
         IN  <<SubSeq(str, 1, at - 1)>> \o Split(SubSeq(str, at + 1, Len(str)), sep)

Null == [null |-> TRUE]

\* The body of verifyJWT's try block: its return value, or what it throws.
\* An element a destructuring takes from past the end of an array is
\* undefined, which a template literal and atob both read as the text
\* 'undefined'.
verifyBody(token, secret) ==
    LET parts == Split(token, CharDot)
        Segment(k) == IF k <= Len(parts) THEN parts[k] ELSE Str(Text.undefined)
        encodedHeader == Segment(1)
        encodedPayload == Segment(2)
        encodedSignature == Segment(3)
        data == encodedHeader \o <<Lit(CharDot)>> \o encodedPayload
        key == importKey(secret)
        signature == atob(encodedSignature)
        text == atob(encodedPayload)
        parsed == Parse(CodesOf(text.value))
    IN  IF ~key.ok \/ ~signature.ok THEN Thrown
        ELSE IF ~HmacVerify(key.value, signature.value, data) THEN Ok(Null)
        ELSE IF ~text.ok \/ ~parsed.ok THEN Thrown
        ELSE Ok([userId |-> Member(parsed.value, Text.userId),
                 email |-> Member(parsed.value, Text.email)])

\* An exception that leaves a function, as its caller sees it.
Uncaught(r) == IF r.ok THEN r.value ELSE [thrown |-> TRUE]

\* try { ... } catch { return null; }
Caught(r) == IF r.ok THEN r.value ELSE Null

\* A verification that refuses every token once the clock has moved.
verifyUnexpired(token, secret) ==
    IF advances > 0 THEN Null ELSE Caught(verifyBody(token, secret))

verifyJWT(token, secret) == Caught(verifyBody(token, secret))

\* The claims of a user of the model: the text of the id and of the email.
ClaimsFor(id, email) ==
    [userId |-> <<117, 48 + id>>,
     email |-> IF email = "a@x.io" THEN <<97, 64, 120, 46, 105, 111>>
               ELSE <<98, 64, 120, 46, 105, 111>>]

UserView(u) == [id |-> u.id, email |-> u.email]

\* The tokens of the users of the model, signed once.
UserTokens ==
    [secret \in Bindings, id \in {1, 2}, email \in {"a@x.io", "b@x.io"} |->
        signJWT(ClaimsFor(id, email), secret)]

\* A response with the token of the first user's id.
TokenOfFirst(u) ==
    [status |-> 200, token |-> UserTokens[env.JWT_SECRET, 1, u.email].value,
     user |-> UserView(u)]

\* The 200 response of the OTP login, or the 500 of the handler's catch when
\* signJWT throws.
TokenResponse(u) ==
    LET token == UserTokens[env.JWT_SECRET, u.id, u.email]
    IN  IF token.ok
        THEN [status |-> 200, token |-> token.value, user |-> UserView(u)]
        ELSE ErrorResponse(500, "OTP verification failed")

-----------------------------------------------------------------------------
(* The clock *)

Advance(d) ==
    /\ last = NoResponse
    /\ advances < MaxAdvances
    /\ now' = now + d
    /\ advances' = advances + 1
    /\ last' = NoResponse
    /\ UNCHANGED <<env, store, ids, req, verified, granted>>

-----------------------------------------------------------------------------
(* POST /auth/otp/request *)

LocalPart(email) == IF email = "a@x.io" THEN "a" ELSE "b"

\* SELECT * FROM otp_codes WHERE email = ? AND
\*   created_at > datetime("now", "-1 minute") ORDER BY created_at DESC LIMIT 1
RecentOtp(email) ==
    {r \in otp_codes :
        /\ r.email = email
        /\ TextGreater(r.created_at, datetime(now - CooldownMs))}

\* History: a code for this email was issued less than a minute before now.
IssuedWithinCooldown(email) ==
    \E r \in otp_codes :
        /\ r.email = email
        /\ now - (ParseISO(r.expires_at) - OtpLifetimeMs) < CooldownMs

OtpInsertsPending == Cardinality({s \in DOMAIN req : req[s].pc = "otpInsert"})

\* The handler up to its first INSERT: the cooldown check, then the expiry
\* of the new code, taken from Date.now().  (The code itself is drawn when
\* the row is written; nothing reads it before.)
OtpRequest(s, email) ==
    /\ req[s] = Idle
    /\ UNCHANGED <<env, now, advances, store, ids, verified, granted>>
    /\ LET args == [email |-> email] IN
       IF ~Truthy(email)
       THEN Respond(s, "OtpRequest", args, ErrorResponse(400, "Missing email"))
       ELSE IF RecentOtp(email) # {}
       THEN Respond(s, "OtpRequest", args,
                    ErrorResponse(429, "Please wait before requesting another OTP"))
       ELSE /\ ids.otp + OtpInsertsPending < MaxOtp
            /\ Continue(s, [op |-> "OtpRequest", pc |-> "otpInsert", args |-> args,
                            loc |-> [expiresAt |-> toISOString(now + OtpLifetimeMs),
                                     early |-> IssuedWithinCooldown(email)]])

\* An INSERT that also retires the email's earlier codes.
OtpRequestReplace(s) ==
    /\ req[s].pc = "otpInsert"
    /\ \E code \in Codes :
         LET r == req[s]
             row == [id |-> ids.otp + 1, email |-> r.args.email, code |-> code,
                     expires_at |-> r.loc.expiresAt, used |-> FALSE,
                     created_at |-> datetime(now)]
         IN /\ otp_codes' = {IF q.email = row.email THEN [q EXCEPT !.used = TRUE] ELSE q :
                                q \in otp_codes} \cup {row}
            /\ ids' = [ids EXCEPT !.otp = @ + 1]
            /\ verified' = verified \ {<<row.email, row.code>>}
            /\ Respond(s, "OtpRequest", r.args @@ [early |-> r.loc.early],
                       [status |-> 200, message |-> "OTP sent to email"])
    /\ UNCHANGED <<env, now, advances, users, organizations, organization_members,
                   agents, usage_records, websites, granted>>

\* INSERT INTO otp_codes (id, email, code, expires_at) VALUES (?, ?, ?, ?)
\* used defaults to 0 and created_at to CURRENT_TIMESTAMP.
OtpRequestInsert(s) ==
    /\ req[s].pc = "otpInsert"
    /\ \E code \in Codes :
         LET r == req[s]
             row == [id |-> ids.otp + 1, email |-> r.args.email, code |-> code,
                     expires_at |-> r.loc.expiresAt, used |-> FALSE,
                     created_at |-> datetime(now)]
         IN /\ otp_codes' = otp_codes \cup {row}
            /\ ids' = [ids EXCEPT !.otp = @ + 1]
            /\ verified' = verified \ {<<row.email, row.code>>}
            /\ Respond(s, "OtpRequest", r.args @@ [early |-> r.loc.early],
                       [status |-> 200, message |-> "OTP sent to email"])
    /\ UNCHANGED <<env, now, advances, users, organizations, organization_members,
                   agents, usage_records, websites, granted>>

-----------------------------------------------------------------------------
(* POST /auth/otp/verify *)

\* SELECT * FROM otp_codes WHERE email = ? AND code = ? AND used = 0
\*   AND expires_at > datetime("now")
ValidOtps(email, otp) ==
    {r \in otp_codes :
        /\ r.email = email
        /\ r.code = otp
        /\ ~r.used
        /\ TextGreater(r.expires_at, datetime(now))}

\* History: now is more than the code's lifetime past both the instant its
\* expiry was computed from and the second its row was written in.
PastLifetime(r) ==
    /\ now > ParseISO(r.expires_at)
    /\ TextGreater(datetime(now - OtpLifetimeMs), r.created_at)

\* ... ORDER BY created_at DESC LIMIT 1: a row no other row is newer than.
NewestOf(rows) ==
    {r \in rows : \A q \in rows : ~TextGreater(q.created_at, r.created_at)}

\* The handler up to its UPDATE: the lookup of a valid code.  A code that is
\* found is kept with the history of the attempt: whether it is past the
\* code's lifetime, and whether this email and code have already been
\* verified once.
OtpVerify(s, email, otp) ==
    /\ req[s] = Idle
    /\ UNCHANGED <<env, now, advances, store, ids, verified, granted>>
    /\ LET args == [email |-> email, otp |-> otp] IN
       IF ~Truthy(email) \/ ~Truthy(otp)
       THEN Respond(s, "OtpVerify", args, ErrorResponse(400, "Missing email or OTP"))
       ELSE IF ValidOtps(email, otp) = {}
       THEN Respond(s, "OtpVerify", args, ErrorResponse(401, "Invalid or expired OTP"))
       ELSE \E r \in NewestOf(ValidOtps(email, otp)) :
              Continue(s, [op |-> "OtpVerify", pc |-> "otpMark", args |-> args,
                           loc |-> [otpRecord |-> r.id,
                                    late |-> PastLifetime(r),
                                    replay |-> <<email, otp>> \in verified]])

\* UPDATE otp_codes SET used = 1 WHERE id = ?
MarkUsed(rows, id) ==
    {IF r.id = id THEN [r EXCEPT !.used = TRUE] ELSE r : r \in rows}

OtpVerifyMark(s) ==
    /\ req[s].pc = "otpMark"
    /\ otp_codes' = MarkUsed(otp_codes, req[s].loc.otpRecord)
    /\ Continue(s, [req[s] EXCEPT !.pc = "otpFindUser"])
    /\ UNCHANGED <<env, now, advances, users, organizations, organization_members,
                   agents, usage_records, websites, ids, verified, granted>>

\* A lookup that finds no one.
NoUserByEmail(email) == {}

\* SELECT * FROM users WHERE email = ?
UserByEmail(email) == {u \in users : u.email = email}
UserById(id) == {u \in users : u.id = id}

\* The token response of a verify, with the history of what it consumed.
OtpVerifySucceed(s, u) ==
    /\ verified' = verified \cup {<<req[s].args.email, req[s].args.otp>>}
    /\ granted' = granted \cup {req[s].loc.otpRecord}
    /\ Respond(s, "OtpVerify",
               req[s].args @@ [late |-> req[s].loc.late, replay |-> req[s].loc.replay,
                               again |-> req[s].loc.otpRecord \in granted],
               TokenResponse(u))

\* SELECT * FROM users WHERE email = ?
OtpVerifyFindUser(s) ==
    /\ req[s].pc = "otpFindUser"
    /\ UNCHANGED <<env, now, advances, store, ids>>
    /\ IF UserByEmail(req[s].args.email) # {}
       THEN \E u \in UserByEmail(req[s].args.email) : OtpVerifySucceed(s, u)
       ELSE /\ Continue(s, [req[s] EXCEPT !.pc = "otpInsertUser"])
            /\ UNCHANGED <<verified, granted>>

\* A NULL or empty password_hash, and a password field that is absent or empty.
NoHash == <<>>

\* A user row that comes with a password hash.
NewUserWithPassword(id, email) ==
    [id |-> id, email |-> email, name |-> LocalPart(email),
     password_hash |-> Str(<<120, 61>>)]

NewUser(id, email) ==
    [id |-> id, email |-> email, name |-> LocalPart(email), password_hash |-> NoHash]

\* INSERT INTO users (id, email, name) VALUES (?, ?, ?), which the UNIQUE
\* email can refuse, then SELECT * FROM users WHERE id = ?.  No statement
\* deletes or rewrites a user, so the row read back is the row written.
OtpVerifyInsertUser(s) ==
    /\ req[s].pc = "otpInsertUser"
    /\ UNCHANGED <<env, now, advances, otp_codes, organizations, organization_members,
                   agents, usage_records, websites>>
    /\ IF UserByEmail(req[s].args.email) # {}
       THEN /\ Respond(s, "OtpVerify", req[s].args,
                       ErrorResponse(500, "OTP verification failed"))
            /\ UNCHANGED <<users, ids, verified, granted>>
       ELSE /\ users' = users \cup {NewUser(ids.user + 1, req[s].args.email)}
            /\ ids' = [ids EXCEPT !.user = @ + 1]
            /\ OtpVerifySucceed(s, NewUser(ids.user + 1, req[s].args.email))

-----------------------------------------------------------------------------
(* POST /auth/google *)

\* The handler up to its INSERT: the body, the two fetches (exchange says how
\* they end: "ok", "refused" by the token endpoint, "noinfo" from the userinfo
\* endpoint) and SELECT * FROM users WHERE email = ?.  Nothing of the store is
\* read before that SELECT.  A userinfo without email binds undefined, which
\* D1 refuses.  The name the userinfo gives is 'Ann'.
Google(s, json, code, redirectUri, exchange, email) ==
    /\ req[s] = Idle
    /\ UNCHANGED <<env, now, advances, store, ids, verified, granted>>
    /\ LET args == [json |-> json, code |-> code, redirectUri |-> redirectUri,
                    exchange |-> exchange, email |-> email, found |-> TRUE]
           user == CHOOSE u \in UserByEmail(email) : TRUE
           token == UserTokens[env.JWT_SECRET, user.id, user.email]
       IN  IF ~json
           THEN Respond(s, "Google", args, ErrorResponse(500, "Authentication failed"))
           ELSE IF ~Truthy(code) \/ ~Truthy(redirectUri)
           THEN Respond(s, "Google", args, ErrorResponse(400, "Missing code or redirectUri"))
           ELSE IF exchange = "refused"
           THEN Respond(s, "Google", args,
                        ErrorResponse(401, "Failed to exchange code for token"))
           ELSE IF exchange = "noinfo"
           THEN Respond(s, "Google", args, ErrorResponse(401, "Failed to get user info"))
           ELSE IF ~Truthy(email)
           THEN Respond(s, "Google", args, ErrorResponse(500, "Authentication failed"))
           ELSE IF UserByEmail(email) = {}
           THEN Continue(s, [op |-> "Google", pc |-> "googleInsertUser",
                             args |-> [args EXCEPT !.found = FALSE], loc |-> <<>>])
           ELSE IF ~token.ok
           THEN Respond(s, "Google", args, ErrorResponse(500, "Authentication failed"))
           ELSE Respond(s, "Google", args,
                        [status |-> 200, token |-> token.value,
                         user |-> UserView(user)])

\* An INSERT OR REPLACE in the place of the INSERT.
GoogleReplaceUser(s) ==
    /\ req[s].pc = "googleInsertUser"
    /\ UNCHANGED <<env, now, advances, otp_codes, organizations, organization_members,
                   agents, usage_records, websites, verified, granted>>
    /\ LET user == [NewUser(ids.user + 1, req[s].args.email) EXCEPT !.name = "Ann"]
           token == UserTokens[env.JWT_SECRET, user.id, user.email]
       IN  /\ users' = {u \in users : u.email # user.email} \cup {user}
           /\ ids' = [ids EXCEPT !.user = @ + 1]
           /\ Respond(s, "Google", req[s].args,
                      [status |-> 200, token |-> token.value, user |-> UserView(user)])

\* INSERT INTO users (id, email, name, picture) VALUES (?, ?, ?, ?), which the
\* UNIQUE email can refuse, then SELECT * FROM users WHERE id = ? and the
\* token.
GoogleInsertUser(s) ==
    /\ req[s].pc = "googleInsertUser"
    /\ UNCHANGED <<env, now, advances, otp_codes, organizations, organization_members,
                   agents, usage_records, websites, verified, granted>>
    /\ LET user == [NewUser(ids.user + 1, req[s].args.email) EXCEPT !.name = "Ann"]
           token == UserTokens[env.JWT_SECRET, user.id, user.email]
       IN  IF UserByEmail(user.email) # {}
           THEN /\ Respond(s, "Google", req[s].args,
                           ErrorResponse(500, "Authentication failed"))
                /\ UNCHANGED <<users, ids>>
           ELSE /\ users' = users \cup {user}
                /\ ids' = [ids EXCEPT !.user = @ + 1]
                /\ IF token.ok
                   THEN Respond(s, "Google", req[s].args,
                                [status |-> 200, token |-> token.value,
                                 user |-> UserView(user)])
                   ELSE Respond(s, "Google", req[s].args,
                                ErrorResponse(500, "Authentication failed"))

-----------------------------------------------------------------------------
(* The OTP flows against the clock *)

NoIds == [otp |-> 0, user |-> 0, org |-> 0, member |-> 0, seeded |-> 0, agent |-> 0,
          usage |-> 0, website |-> 0]

InitOtp ==
    /\ env = [JWT_SECRET |-> JWT_SECRET]
    /\ now \in StartTimes
    /\ advances = 0
    /\ users = {}
    /\ otp_codes = {}
    /\ organizations = {}
    /\ organization_members = {}
    /\ agents = {}
    /\ usage_records = {}
    /\ websites = {}
    /\ ids = NoIds
    /\ req = [s \in Slots |-> Idle]
    /\ last = NoResponse
    /\ verified = {}
    /\ granted = {}

OtpStep(E) ==
    \/ \E d \in ClockSteps : Advance(d)
    \/ \E s \in DOMAIN req, e \in E \cup {NoValue} : OtpRequest(s, e)
    \/ \E s \in DOMAIN req : OtpRequestInsert(s)
    \/ \E s \in DOMAIN req, e \in E \cup {NoValue}, c \in Codes \cup {NoValue} :
         OtpVerify(s, e, c)
    \/ \E s \in DOMAIN req : OtpVerifyMark(s)
    \/ \E s \in DOMAIN req : OtpVerifyFindUser(s)
    \/ \E s \in DOMAIN req : OtpVerifyInsertUser(s)
    \/ Deliver

\* Requests for one email, two in flight at once.
NextOtp == OtpStep({"a@x.io"})
SpecOtp == InitOtp /\ [][NextOtp]_vars

\* Requests for either email, one at a time.
InitOtpSeq ==
    /\ env = [JWT_SECRET |-> JWT_SECRET]
    /\ now \in StartTimes
    /\ advances = 0
    /\ users = {}
    /\ otp_codes = {}
    /\ organizations = {}
    /\ organization_members = {}
    /\ agents = {}
    /\ usage_records = {}
    /\ websites = {}
    /\ ids = NoIds
    /\ req = [s \in {1} |-> Idle]
    /\ last = NoResponse
    /\ verified = {}
    /\ granted = {}

NextOtpSeq == OtpStep(Emails)
SpecOtpSeq == InitOtpSeq /\ [][NextOtpSeq]_vars

(* C1: once a verify of an email and code has returned a token, a later    *)
(* verify of the same email and code returns no token, whatever codes were  *)
(* issued for the email before the first verify.                            *)
C1_SingleUse ==
    ~(last.op = "OtpVerify" /\ last.resp.status = 200 /\ last.args.replay)

(* C2: when exactly one record matches an email and code, concurrent        *)
(* verifies of that email and code return at most one token.                *)
C2_AtMostOneToken ==
    ~(/\ last.op = "OtpVerify"
      /\ last.resp.status = 200
      /\ last.args.again
      /\ Cardinality({r \in otp_codes : /\ r.email = last.args.email
                                        /\ r.code = last.args.otp}) = 1)

(* C3: a verify made more than ten minutes after the code was issued        *)
(* returns no token.                                                        *)
C3_Expiry ==
    ~(last.op = "OtpVerify" /\ last.resp.status = 200 /\ last.args.late)

(* C4: a request made less than 60 seconds after a code was issued for the  *)
(* same email is refused with 429 and stores no code.                       *)
C4_Cooldown ==
    ~(last.op = "OtpRequest" /\ last.resp.status = 200 /\ last.args.early)

\* The OTP routes of a worker deployed with the secret, with an empty secret
\* or without one, one request at a time.
InitStart ==
    /\ env \in {[JWT_SECRET |-> secret] : secret \in Bindings}
    /\ now \in StartTimes
    /\ advances = 0
    /\ users = {}
    /\ otp_codes = {}
    /\ organizations = {}
    /\ organization_members = {}
    /\ agents = {}
    /\ usage_records = {}
    /\ websites = {}
    /\ ids = NoIds
    /\ req = [s \in {1} |-> Idle]
    /\ last = NoResponse
    /\ verified = {}
    /\ granted = {}

SpecStart == InitStart /\ [][NextOtp]_vars

(* C24: a worker whose JWT_SECRET is absent or empty takes no request: no    *)
(* request is in a handler and no response is sent.                          *)
C24_NoTraffic ==
    env.JWT_SECRET \in {<<>>, Undefined}
      => /\ \A s \in DOMAIN req : req[s] = Idle
         /\ last = NoResponse

(* C23: the used flag of a code changes only from unused to used, and only   *)
(* by a verify that presented the code's email and code and found it unused  *)
(* and not past its lifetime; no step changes an expires_at, removes a       *)
(* record or resets a used flag; and a verify that is refused was refused at *)
(* its lookup, having written no OTP record and no user.                     *)
C23_StateMachine ==
    [][
        /\ \A r \in otp_codes :
              \E q \in otp_codes' :
                /\ q.id = r.id
                /\ q.expires_at = r.expires_at
                /\ r.used => q.used
                /\ (~r.used /\ q.used)
                      => \E s \in DOMAIN req :
                           /\ req[s].op = "OtpVerify"
                           /\ req[s].pc = "otpMark"
                           /\ req[s].args.email = r.email
                           /\ req[s].args.otp = r.code
                           /\ ~req[s].loc.late
        /\ (last'.op = "OtpVerify" /\ last'.resp.status # 200)
              => /\ req' = req
                 /\ otp_codes' = otp_codes
                 /\ users' = users
    ]_vars

(* C30: a successful POST /auth/otp/request adds exactly one OTP record,   *)
(* for the email of the request, unused, with a fresh id and the expiry the  *)
(* handler computed ten minutes after the instant it read the clock, and    *)
(* leaves every record there was as it was; a request answered 400 or 429   *)
(* has written nothing and writes nothing.                                   *)
C30_RequestEffect ==
    [][
        /\ \A s \in DOMAIN req :
              (req[s] = Idle /\ req'[s].op = "OtpRequest")
                => /\ ParseISO(req'[s].loc.expiresAt) = now + OtpLifetimeMs
                   /\ otp_codes' = otp_codes
        /\ (last'.op = "OtpRequest" /\ last'.resp.status = 200)
              => \E s \in DOMAIN req, row \in otp_codes' :
                   /\ req[s].pc = "otpInsert"
                   /\ req'[s] = Idle
                   /\ otp_codes' \ {row} = otp_codes
                   /\ row \notin otp_codes
                   /\ \A q \in otp_codes : q.id # row.id
                   /\ row.email = req[s].args.email
                   /\ ~row.used
                   /\ row.expires_at = req[s].loc.expiresAt
        /\ (last'.op = "OtpRequest" /\ last'.resp.status # 200)
              => /\ last'.resp.status \in {400, 429}
                 /\ otp_codes' = otp_codes
                 /\ req' = req
    ]_vars

C30_SecondCodeAdded ==
    /\ last.op = "OtpRequest"
    /\ last.resp.status = 200
    /\ Cardinality({r \in otp_codes : r.email = last.args.email /\ ~r.used}) = 2
    /\ \E r, q \in otp_codes : r.expires_at # q.expires_at

-----------------------------------------------------------------------------
(* The organization tables *)

UserIds == {1, 2}
OrgNames == {"Acme"}          \* the names POST /organizations is given
NewOrgNames == {"Bolt"}       \* the names PUT /organizations/:id is given
Suffixes == {"r1"}
Roles == {"member", "admin"}

\* name.toLowerCase().replace(/[^a-z0-9]+/g, '-').replace(/^-|-$/g, '')
\* A slug is the sequence of its '-'-separated parts.
Slugify(name) == IF name = "Acme" THEN <<"acme">> ELSE <<"bolt">>
Slugs == {Slugify(n) : n \in OrgNames}      \* the url_slug values PUT is given
NoSlug == <<>>               \* an absent or empty url_slug

\* The identities behind the callers' tokens.
SeededUsers == {NewUser(1, "a@x.io"), NewUser(2, "b@x.io")}

NullMember ==
    [id |-> NoId, organization_id |-> NoId, user_id |-> NoId, role |-> NoValue]

MembersOf(o) == {m \in organization_members : m.organization_id = o.id}

\* The rows an inner join would give.
InnerJoinMembers(o) == MembersOf(o)

\* organizations o LEFT JOIN organization_members om ON o.id = om.organization_id
LeftJoinMembers(o) == IF MembersOf(o) = {} THEN {NullMember} ELSE MembersOf(o)

OrgJoin ==
    {j \in organizations \X (organization_members \cup {NullMember}) :
        j[2] \in LeftJoinMembers(j[1])}

\* ... WHERE o.owner_id = ? OR om.user_id = ?
OrgRowsFor(userId) ==
    {j \in OrgJoin : j[1].owner_id = userId \/ j[2].user_id = userId}

\* ... WHERE o.id = ? AND (o.owner_id = ? OR om.user_id = ?) LIMIT 1
OrgAccess(orgId, userId) == {j \in OrgRowsFor(userId) : j[1].id = orgId}

\* The owner check replaced by the access check of the read routes.
AccessibleOrg(orgId, userId) == {j[1] : j \in OrgAccess(orgId, userId)}

\* SELECT * FROM organizations WHERE id = ? AND owner_id = ?
OwnedOrg(orgId, userId) ==
    {o \in organizations : o.id = orgId /\ o.owner_id = userId}

OrgById(orgId) == {o \in organizations : o.id = orgId}

\* The rows of a result, each with the number of times it occurs.
Project(rows, col) ==
    [r \in {j[col] : j \in rows} |-> Cardinality({j \in rows : j[col] = r})]

\* A SELECT without DISTINCT.
Duplicates(result) == result

\* SELECT DISTINCT
Distinct(result) == [r \in DOMAIN result |-> 1]

\* The first row of a result that is known to hold one row at most, or null.
FirstOf(rows) == IF rows = {} THEN <<>> ELSE CHOOSE r \in rows : TRUE

\* A handler that answers after a single statement.
Answer(op, args, resp) ==
    /\ last = NoResponse
    /\ req' = req
    /\ last' = [op |-> op, args |-> args, resp |-> resp]

Pending(pcs) == Cardinality({s \in DOMAIN req : req[s].pc \in pcs})

-----------------------------------------------------------------------------
(* GET /organizations, GET /organizations/:id, GET /organizations/:id/members *)

ListOrgs(userId) ==
    /\ Answer("ListOrgs", [caller |-> userId],
              [status |-> 200,
               organizations |-> Distinct(Project(OrgRowsFor(userId), 1))])
    /\ UNCHANGED <<env, now, advances, store, ids, verified, granted>>

GetOrg(userId, orgId) ==
    /\ Answer("GetOrg", [caller |-> userId, id |-> orgId],
              IF OrgAccess(orgId, userId) = {}
              THEN ErrorResponse(404, "Organization not found")
              ELSE [status |-> 200,
                    organization |-> FirstOf({j[1] : j \in OrgAccess(orgId, userId)})])
    /\ UNCHANGED <<env, now, advances, store, ids, verified, granted>>

\* History: the caller is the owner of the organization or has a membership
\* row for it.
IsOwnerOrMember(userId, orgId) ==
    \E o \in organizations :
        /\ o.id = orgId
        /\ \/ o.owner_id = userId
           \/ \E m \in organization_members :
                m.organization_id = orgId /\ m.user_id = userId

GetMembers(s, userId, orgId) ==
    /\ req[s] = Idle
    /\ UNCHANGED <<env, now, advances, store, ids, verified, granted>>
    /\ LET args == [caller |-> userId, id |-> orgId] IN
       IF OrgAccess(orgId, userId) = {}
       THEN Respond(s, "GetMembers", args,
                    ErrorResponse(404, "Organization not found or access denied"))
       ELSE Continue(s, [op |-> "GetMembers", pc |-> "membersQuery", args |-> args,
                         loc |-> [access |-> IsOwnerOrMember(userId, orgId)]])

\* SELECT om.*, u.email, u.name, u.picture FROM organization_members om
\*   JOIN users u ON om.user_id = u.id WHERE om.organization_id = ?
MemberRows(orgId) ==
    {[id |-> m.id, organization_id |-> m.organization_id, user_id |-> m.user_id,
      role |-> m.role, email |-> u.email, name |-> u.name] :
        <<m, u>> \in {j \in organization_members \X users :
                        j[1].user_id = j[2].id /\ j[1].organization_id = orgId}}

GetMembersQuery(s) ==
    /\ req[s].pc = "membersQuery"
    /\ Respond(s, "GetMembers", req[s].args,
               [status |-> 200, members |-> MemberRows(req[s].args.id)])
    /\ UNCHANGED <<env, now, advances, store, ids, verified, granted>>

-----------------------------------------------------------------------------
(* POST /organizations *)

\* A lookup by slug that finds no organization.
NoOrgBySlug(slug) == {}

OrgBySlug(slug) == {o \in organizations : o.url_slug = slug}

\* Up to the INSERT: the slug is the given one or the name's, with a random
\* suffix when the SELECT finds it taken.
PostOrg(s, userId, name, url_slug) ==
    /\ req[s] = Idle
    /\ UNCHANGED <<env, now, advances, store, ids, verified, granted>>
    /\ LET args == [caller |-> userId, name |-> name, url_slug |-> url_slug]
           slug == IF url_slug # NoSlug THEN url_slug ELSE Slugify(name)
       IN IF ~Truthy(name)
          THEN Respond(s, "PostOrg", args, ErrorResponse(400, "Missing organization name"))
          ELSE /\ ids.org + Pending({"orgInsert"}) < MaxOrgs
               /\ IF OrgBySlug(slug) = {}
                  THEN Continue(s, [op |-> "PostOrg", pc |-> "orgInsert", args |-> args,
                                    loc |-> [slug |-> slug]])
                  ELSE \E x \in Suffixes :
                         Continue(s, [op |-> "PostOrg", pc |-> "orgInsert", args |-> args,
                                      loc |-> [slug |-> Append(slug, x)]])

\* INSERT INTO organizations (id, name, url_slug, owner_id, ...); url_slug is UNIQUE.
PostOrgInsert(s) ==
    /\ req[s].pc = "orgInsert"
    /\ UNCHANGED <<env, now, advances, users, otp_codes, organization_members, agents,
                   usage_records, websites, verified, granted>>
    /\ ids' = [ids EXCEPT !.org = @ + 1]
    /\ IF OrgBySlug(req[s].loc.slug) # {}
       THEN /\ Respond(s, "PostOrg", req[s].args,
                       ErrorResponse(500, "Failed to create organization"))
            /\ UNCHANGED organizations
       ELSE /\ organizations' = organizations \cup
                    {[id |-> ids.org + 1, name |-> req[s].args.name,
                      url_slug |-> req[s].loc.slug, owner_id |-> req[s].args.caller]}
            /\ Continue(s, [req[s] EXCEPT !.pc = "orgInsertMember",
                                          !.loc = [orgId |-> ids.org + 1]])

\* A creation that answers 201 without the membership row.
PostOrgSkipMember(s) ==
    /\ req[s].pc = "orgInsertMember"
    /\ UNCHANGED <<env, now, advances, store, ids, verified, granted>>
    /\ Respond(s, "PostOrg", req[s].args @@ [id |-> req[s].loc.orgId],
               [status |-> 201, organization |-> FirstOf(OrgById(req[s].loc.orgId))])

\* INSERT INTO organization_members (id, organization_id, user_id, role)
\*   VALUES (?, ?, ?, 'owner'); the organization is a foreign key and
\* (organization_id, user_id) is UNIQUE.  Then SELECT * FROM organizations
\* WHERE id = ? and the 201.
PostOrgInsertMember(s) ==
    /\ req[s].pc = "orgInsertMember"
    /\ UNCHANGED <<env, now, advances, users, otp_codes, organizations, agents,
                   usage_records, websites, verified, granted>>
    /\ ids' = [ids EXCEPT !.member = @ + 1]
    /\ IF \/ OrgById(req[s].loc.orgId) = {}
          \/ \E m \in organization_members :
                /\ m.organization_id = req[s].loc.orgId
                /\ m.user_id = req[s].args.caller
       THEN /\ Respond(s, "PostOrg", req[s].args,
                       ErrorResponse(500, "Failed to create organization"))
            /\ UNCHANGED organization_members
       ELSE /\ organization_members' = organization_members \cup
                    {[id |-> ids.member + 1, organization_id |-> req[s].loc.orgId,
                      user_id |-> req[s].args.caller, role |-> "owner"]}
            /\ Respond(s, "PostOrg", req[s].args @@ [id |-> req[s].loc.orgId],
                       [status |-> 201,
                        organization |-> FirstOf(OrgById(req[s].loc.orgId))])

-----------------------------------------------------------------------------
(* PUT /organizations/:id *)

\* SELECT * FROM organizations WHERE url_slug = ? AND id != ?
SlugTakenByOther(slug, orgId) ==
    {o \in organizations : o.url_slug = slug /\ o.id # orgId}

\* The body is read before the owner is looked up: c.req.json() throws on a
\* body that is no JSON object (json = FALSE) and the catch answers 500.
PutOrg(s, userId, orgId, json, name, url_slug) ==
    /\ req[s] = Idle
    /\ UNCHANGED <<env, now, advances, store, ids, verified, granted>>
    /\ LET args == [caller |-> userId, id |-> orgId, json |-> json, name |-> name,
                    url_slug |-> url_slug]
       IN IF ~json
          THEN Respond(s, "PutOrg", args,
                       ErrorResponse(500, "Failed to update organization"))
          ELSE IF OwnedOrg(orgId, userId) = {}
          THEN Respond(s, "PutOrg", args,
                       ErrorResponse(404, "Organization not found or access denied"))
          ELSE IF url_slug # NoSlug
          THEN Continue(s, [op |-> "PutOrg", pc |-> "putOrgSlug", args |-> args,
                            loc |-> <<>>])
          ELSE IF Truthy(name)
          THEN Continue(s, [op |-> "PutOrg", pc |-> "putOrgUpdate", args |-> args,
                            loc |-> <<>>])
          ELSE Respond(s, "PutOrg", args, ErrorResponse(400, "No fields to update"))

PutOrgSlugCheck(s) ==
    /\ req[s].pc = "putOrgSlug"
    /\ UNCHANGED <<env, now, advances, store, ids, verified, granted>>
    /\ IF SlugTakenByOther(req[s].args.url_slug, req[s].args.id) # {}
       THEN Respond(s, "PutOrg", req[s].args, ErrorResponse(409, "URL slug already in use"))
       ELSE Continue(s, [req[s] EXCEPT !.pc = "putOrgUpdate"])

\* UPDATE organizations SET name = ?, url_slug = ?, updated_at = ? WHERE id = ?
\* with only the columns the body gives.
\* A PUT /organizations/:id whose UPDATE hands the organization to user 2.
UpdatedOrgReowned(o, name, url_slug) ==
    [o EXCEPT !.name = IF Truthy(name) THEN name ELSE @,
              !.url_slug = IF url_slug # NoSlug THEN url_slug ELSE @,
              !.owner_id = 2]

UpdatedOrg(o, name, url_slug) ==
    [o EXCEPT !.name = IF Truthy(name) THEN name ELSE @,
              !.url_slug = IF url_slug # NoSlug THEN url_slug ELSE @]

PutOrgUpdate(s) ==
    /\ req[s].pc = "putOrgUpdate"
    /\ UNCHANGED <<env, now, advances, users, otp_codes, organization_members, agents,
                   usage_records, websites, ids, verified, granted>>
    /\ LET a == req[s].args IN
       IF /\ a.url_slug # NoSlug
          /\ OrgById(a.id) # {}
          /\ SlugTakenByOther(a.url_slug, a.id) # {}
       THEN /\ Respond(s, "PutOrg", a, ErrorResponse(500, "Failed to update organization"))
            /\ UNCHANGED organizations
       ELSE /\ organizations' =
                 {IF o.id = a.id THEN UpdatedOrg(o, a.name, a.url_slug) ELSE o :
                    o \in organizations}
            /\ Respond(s, "PutOrg", a,
                       [status |-> 200,
                        organization |->
                            FirstOf({UpdatedOrg(o, a.name, a.url_slug) :
                                       o \in OrgById(a.id)})])

-----------------------------------------------------------------------------
(* DELETE /organizations/:id *)

DeleteOrg(s, userId, orgId) ==
    /\ req[s] = Idle
    /\ UNCHANGED <<env, now, advances, store, ids, verified, granted>>
    /\ LET args == [caller |-> userId, id |-> orgId] IN
       IF OwnedOrg(orgId, userId) = {}
       THEN Respond(s, "DeleteOrg", args,
                    ErrorResponse(404, "Organization not found or access denied"))
       ELSE Continue(s, [op |-> "DeleteOrg", pc |-> "deleteOrgRun", args |-> args,
                         loc |-> <<>>])

\* agents.id is a foreign key of usage_records ON DELETE SET NULL.
ClearAgents(rows, gone) ==
    {IF r.agent_id \in gone THEN [r EXCEPT !.agent_id = NoId] ELSE r : r \in rows}

\* DELETE FROM organizations WHERE id = ?, with the schema's ON DELETE
\* CASCADE on members, agents and usage records.
\* A DELETE that removes the organization's row and nothing under it.
DeleteOrgRowOnly(s) ==
    /\ req[s].pc = "deleteOrgRun"
    /\ organizations' = {o \in organizations : o.id # req[s].args.id}
    /\ Respond(s, "DeleteOrg", req[s].args,
               [status |-> 200, message |-> "Organization deleted"])
    /\ UNCHANGED <<env, now, advances, users, otp_codes, organization_members, agents,
                   usage_records, websites, ids, verified, granted>>

DeleteOrgRun(s) ==
    /\ req[s].pc = "deleteOrgRun"
    /\ LET orgId == req[s].args.id
           gone == {a.id : a \in {a \in agents : a.organization_id = orgId}}
       IN /\ organizations' = {o \in organizations : o.id # orgId}
          /\ organization_members' =
                 {m \in organization_members : m.organization_id # orgId}
          /\ agents' = {a \in agents : a.organization_id # orgId}
          /\ usage_records' =
                 ClearAgents({r \in usage_records : r.organization_id # orgId}, gone)
    /\ Respond(s, "DeleteOrg", req[s].args,
               [status |-> 200, message |-> "Organization deleted"])
    /\ UNCHANGED <<env, now, advances, users, otp_codes, websites, ids, verified, granted>>

-----------------------------------------------------------------------------
(* Membership rows are written by POST /organizations only; any other row   *)
(* of the table (role 'member' by default) comes from outside these routes. *)

SeedMember(orgId, userId, role) ==
    /\ last = NoResponse
    /\ ids.seeded < MaxSeeded
    /\ OrgById(orgId) # {}
    /\ UserById(userId) # {}
    /\ ~\E m \in organization_members :
          m.organization_id = orgId /\ m.user_id = userId
    /\ organization_members' = organization_members \cup
           {[id |-> ids.member + 1, organization_id |-> orgId, user_id |-> userId,
             role |-> role]}
    /\ ids' = [ids EXCEPT !.member = @ + 1, !.seeded = @ + 1]
    /\ last' = NoResponse
    /\ UNCHANGED <<env, now, advances, users, otp_codes, organizations, agents,
                   usage_records, websites, req, verified, granted>>

-----------------------------------------------------------------------------
(* The agent routes *)

AgentNames == {"bot"}         \* the names POST /agents is given
NewAgentNames == {"bot2"}     \* the names PUT /agents/:id is given

\* agents a JOIN organizations o ON a.organization_id = o.id
\*   LEFT JOIN organization_members om ON o.id = om.organization_id
AgentJoin ==
    {<<a, j[1], j[2]>> : <<a, j>> \in {x \in agents \X OrgJoin :
                                          x[1].organization_id = x[2][1].id}}

\* The join restricted to the organizations the caller owns.
OwnedAgentRows(userId) == {j \in AgentJoin : j[2].owner_id = userId}

\* ... WHERE (o.owner_id = ? OR om.user_id = ?)
AgentRowsFor(userId) ==
    {j \in AgentJoin : j[2].owner_id = userId \/ j[3].user_id = userId}

\* The lookup without the access condition.
AgentLookup(agentId, userId) == {j \in AgentJoin : j[1].id = agentId}

\* ... WHERE a.id = ? AND (o.owner_id = ? OR om.user_id = ?) LIMIT 1
AgentAccess(agentId, userId) == {j \in AgentRowsFor(userId) : j[1].id = agentId}

AgentById(agentId) == {a \in agents : a.id = agentId}

\* GET /agents, with the optional organization_id filter
ListAgents(userId, organizationId) ==
    /\ Answer("ListAgents", [caller |-> userId, organization_id |-> organizationId],
              [status |-> 200,
               agents |-> Distinct(Project(
                   IF organizationId # NoId
                   THEN {j \in AgentRowsFor(userId) :
                            j[1].organization_id = organizationId}
                   ELSE AgentRowsFor(userId), 1))])
    /\ UNCHANGED <<env, now, advances, store, ids, verified, granted>>

\* GET /agents/:id
GetAgent(userId, agentId) ==
    /\ Answer("GetAgent", [caller |-> userId, id |-> agentId],
              IF AgentAccess(agentId, userId) = {}
              THEN ErrorResponse(404, "Agent not found")
              ELSE [status |-> 200,
                    agent |-> FirstOf({j[1] : j \in AgentAccess(agentId, userId)})])
    /\ UNCHANGED <<env, now, advances, store, ids, verified, granted>>

\* POST /agents, up to its INSERT.  The body is read first: c.req.json()
\* throws on a body that is no JSON object (json = FALSE).
PostAgent(s, userId, json, organization_id, name) ==
    /\ req[s] = Idle
    /\ UNCHANGED <<env, now, advances, store, ids, verified, granted>>
    /\ LET args == [caller |-> userId, json |-> json, id |-> organization_id,
                    name |-> name]
       IN
       IF ~json
       THEN Respond(s, "PostAgent", args, ErrorResponse(500, "Failed to create agent"))
       ELSE IF organization_id = NoId \/ ~Truthy(name)
       THEN Respond(s, "PostAgent", args,
                    ErrorResponse(400, "Missing organization_id or name"))
       ELSE IF OrgAccess(organization_id, userId) = {}
       THEN Respond(s, "PostAgent", args,
                    ErrorResponse(404, "Organization not found or access denied"))
       ELSE /\ ids.agent + Pending({"agentInsert"}) < MaxAgents
            /\ Continue(s, [op |-> "PostAgent", pc |-> "agentInsert", args |-> args,
                            loc |-> [access |-> IsOwnerOrMember(userId, organization_id)]])

\* INSERT INTO agents (id, organization_id, name, ...); the organization is
\* a foreign key.
PostAgentInsert(s) ==
    /\ req[s].pc = "agentInsert"
    /\ UNCHANGED <<env, now, advances, users, otp_codes, organizations,
                   organization_members, usage_records, websites, verified, granted>>
    /\ ids' = [ids EXCEPT !.agent = @ + 1]
    /\ IF OrgById(req[s].args.id) = {}
       THEN /\ Respond(s, "PostAgent", req[s].args,
                       ErrorResponse(500, "Failed to create agent"))
            /\ UNCHANGED agents
       ELSE /\ agents' = agents \cup
                    {[id |-> ids.agent + 1, organization_id |-> req[s].args.id,
                      name |-> req[s].args.name]}
            /\ Respond(s, "PostAgent", req[s].args @@ [access |-> req[s].loc.access],
                       [status |-> 201,
                        agent |-> [id |-> ids.agent + 1,
                                   organization_id |-> req[s].args.id,
                                   name |-> req[s].args.name]])

\* PUT /agents/:id (of its optional columns, the name).  The body is read
\* before the access check.
PutAgent(s, userId, agentId, json, name) ==
    /\ req[s] = Idle
    /\ UNCHANGED <<env, now, advances, store, ids, verified, granted>>
    /\ LET args == [caller |-> userId, id |-> agentId, json |-> json, name |-> name] IN
       IF ~json
       THEN Respond(s, "PutAgent", args, ErrorResponse(500, "Failed to update agent"))
       ELSE IF AgentAccess(agentId, userId) = {}
       THEN Respond(s, "PutAgent", args,
                    ErrorResponse(404, "Agent not found or access denied"))
       ELSE IF name = NoValue
       THEN Respond(s, "PutAgent", args, ErrorResponse(400, "No fields to update"))
       ELSE Continue(s, [op |-> "PutAgent", pc |-> "putAgentUpdate", args |-> args,
                         loc |-> <<>>])

PutAgentUpdate(s) ==
    /\ req[s].pc = "putAgentUpdate"
    /\ agents' = {IF a.id = req[s].args.id THEN [a EXCEPT !.name = req[s].args.name]
                  ELSE a : a \in agents}
    /\ Respond(s, "PutAgent", req[s].args,
               [status |-> 200,
                agent |-> FirstOf({[a EXCEPT !.name = req[s].args.name] :
                                     a \in AgentById(req[s].args.id)})])
    /\ UNCHANGED <<env, now, advances, users, otp_codes, organizations,
                   organization_members, usage_records, websites, ids, verified, granted>>

\* A DELETE that tells an agent of someone else's organization from no agent.
DeleteAgentForbidding(s, userId, agentId) ==
    /\ req[s] = Idle
    /\ UNCHANGED <<env, now, advances, store, ids, verified, granted>>
    /\ LET args == [caller |-> userId, id |-> agentId] IN
       IF AgentById(agentId) = {}
       THEN Respond(s, "DeleteAgent", args,
                    ErrorResponse(404, "Agent not found or access denied"))
       ELSE IF AgentAccess(agentId, userId) = {}
       THEN Respond(s, "DeleteAgent", args, ErrorResponse(403, "Forbidden"))
       ELSE Continue(s, [op |-> "DeleteAgent", pc |-> "deleteAgentRun", args |-> args,
                         loc |-> <<>>])

\* DELETE /agents/:id
DeleteAgent(s, userId, agentId) ==
    /\ req[s] = Idle
    /\ UNCHANGED <<env, now, advances, store, ids, verified, granted>>
    /\ LET args == [caller |-> userId, id |-> agentId] IN
       IF AgentAccess(agentId, userId) = {}
       THEN Respond(s, "DeleteAgent", args,
                    ErrorResponse(404, "Agent not found or access denied"))
       ELSE Continue(s, [op |-> "DeleteAgent", pc |-> "deleteAgentRun", args |-> args,
                         loc |-> <<>>])

DeleteAgentRun(s) ==
    /\ req[s].pc = "deleteAgentRun"
    /\ agents' = {a \in agents : a.id # req[s].args.id}
    /\ usage_records' = ClearAgents(usage_records, {req[s].args.id})
    /\ Respond(s, "DeleteAgent", req[s].args, [status |-> 200, message |-> "Agent deleted"])
    /\ UNCHANGED <<env, now, advances, users, otp_codes, organizations,
                   organization_members, websites, ids, verified, granted>>

-----------------------------------------------------------------------------
(* The organization and agent routes: one request with several statements *)
(* at a time, the single-statement reads between any two of its statements *)

OrgIds == 1..MaxOrgs
AgentIds == 1..MaxAgents

InitOrg ==
    /\ env = [JWT_SECRET |-> JWT_SECRET]
    /\ now \in StartTimes
    /\ advances = 0
    /\ users = SeededUsers
    /\ otp_codes = {}
    /\ organizations = {}
    /\ organization_members = {}
    /\ agents = {}
    /\ usage_records = {}
    /\ websites = {}
    /\ ids = NoIds
    /\ req = [s \in {1} |-> Idle]
    /\ last = NoResponse
    /\ verified = {}
    /\ granted = {}

NextOrg ==
    \/ \E u \in UserIds : ListOrgs(u)
    \/ \E u \in UserIds, o \in OrgIds : GetOrg(u, o)
    \/ \E s \in DOMAIN req, u \in UserIds, o \in OrgIds : GetMembers(s, u, o)
    \/ \E s \in DOMAIN req : GetMembersQuery(s)
    \/ \E s \in DOMAIN req, u \in UserIds, n \in OrgNames \cup {NoValue},
          g \in {NoSlug} : PostOrg(s, u, n, g)
    \/ \E s \in DOMAIN req : PostOrgInsert(s)
    \/ \E s \in DOMAIN req : PostOrgInsertMember(s)
    \/ \E s \in DOMAIN req, u \in UserIds, o \in OrgIds, n \in NewOrgNames \cup {NoValue},
          g \in Slugs \cup {NoSlug} : PutOrg(s, u, o, TRUE, n, g)
    \/ \E s \in DOMAIN req, u \in UserIds, o \in OrgIds :
         PutOrg(s, u, o, FALSE, NoValue, NoSlug)
    \/ \E s \in DOMAIN req : PutOrgSlugCheck(s)
    \/ \E s \in DOMAIN req : PutOrgUpdate(s)
    \/ \E s \in DOMAIN req, u \in UserIds, o \in OrgIds : DeleteOrg(s, u, o)
    \/ \E s \in DOMAIN req : DeleteOrgRun(s)
    \/ \E o \in OrgIds, u \in UserIds, r \in Roles : SeedMember(o, u, r)
    \/ \E u \in UserIds, o \in OrgIds \cup {NoId} : ListAgents(u, o)
    \/ \E u \in UserIds, a \in AgentIds : GetAgent(u, a)
    \/ \E s \in DOMAIN req, u \in UserIds, o \in OrgIds \cup {NoId},
          n \in AgentNames \cup {NoValue} : PostAgent(s, u, TRUE, o, n)
    \/ \E s \in DOMAIN req, u \in UserIds : PostAgent(s, u, FALSE, NoId, NoValue)
    \/ \E s \in DOMAIN req : PostAgentInsert(s)
    \/ \E s \in DOMAIN req, u \in UserIds, a \in AgentIds,
          n \in NewAgentNames \cup {NoValue} : PutAgent(s, u, a, TRUE, n)
    \/ \E s \in DOMAIN req, u \in UserIds, a \in AgentIds :
         PutAgent(s, u, a, FALSE, NoValue)
    \/ \E s \in DOMAIN req : PutAgentUpdate(s)
    \/ \E s \in DOMAIN req, u \in UserIds, a \in AgentIds : DeleteAgent(s, u, a)
    \/ \E s \in DOMAIN req : DeleteAgentRun(s)
    \/ Deliver

SpecOrg == InitOrg /\ [][NextOrg]_vars

(* C5: GET /agents/:id answers a caller who is neither owner nor member of  *)
(* the agent's organization with the one 404 it gives for an id that names   *)
(* no agent, and answers the organization's owner with the agent.            *)
C5_HidesExistence ==
    last.op = "GetAgent" =>
        LET caller == last.args.caller
            found == AgentById(last.args.id)
        IN /\ (\A a \in found : ~IsOwnerOrMember(caller, a.organization_id)) =>
                  /\ last.resp.status = 404
                  /\ last.resp = ErrorResponse(404, "Agent not found")
           /\ \A a \in found :
                  (\E o \in organizations :
                      o.id = a.organization_id /\ o.owner_id = caller) =>
                  /\ last.resp.status = 200
                  /\ last.resp.agent = a

C5_DeniedExisting ==
    /\ last.op = "GetAgent"
    /\ last.resp.status = 404
    /\ \E a \in AgentById(last.args.id) :
          /\ OrgById(a.organization_id) # {}
          /\ ~IsOwnerOrMember(last.args.caller, a.organization_id)

(* C6: the access check of GET /organizations/:id, of GET                   *)
(* /organizations/:id/members and of POST /agents passes for the owner of   *)
(* the organization, membership rows or none, passes for a caller with a    *)
(* membership row of any role, and answers 404 to any other caller.         *)
C6_AccessCheck ==
    /\ last.op = "GetOrg" =>
          /\ last.resp.status \in {200, 404}
          /\ last.resp.status = 200 <=> IsOwnerOrMember(last.args.caller, last.args.id)
    /\ (last.op \in {"GetMembers", "PostAgent"} /\ last.resp.status = 404) =>
          ~IsOwnerOrMember(last.args.caller, last.args.id)
    /\ \A s \in DOMAIN req :
          req[s].pc \in {"membersQuery", "agentInsert"} => req[s].loc.access

C6_OwnerWithoutRows ==
    /\ last.op = "GetOrg"
    /\ last.resp.status = 200
    /\ \E o \in OrgById(last.args.id) :
          o.owner_id = last.args.caller /\ MembersOf(o) = {}

(* C7 as stated: a step of PUT or DELETE /organizations/:id changes        *)
(* organizations, members or agents only for a caller whose id is the       *)
(* organization's owner_id; any other caller, a member included, is         *)
(* answered 404 by a step that leaves the store as it was, whatever the     *)
(* body.                                                                    *)
C7_OwnerOnly404 ==
    [][
        /\ \A s \in DOMAIN req :
             (/\ req[s].op \in {"PutOrg", "DeleteOrg"}
              /\ req'[s] # req[s]
              /\ <<organizations, organization_members, agents>>' #
                     <<organizations, organization_members, agents>>) =>
             \E o \in OrgById(req[s].args.id) : o.owner_id = req[s].args.caller
        /\ (/\ last = NoResponse
            /\ last'.op \in {"PutOrg", "DeleteOrg"}
            /\ \E o \in OrgById(last'.args.id) :
                  /\ o.owner_id # last'.args.caller
                  /\ \E m \in MembersOf(o) : m.user_id = last'.args.caller) =>
             /\ last'.resp.status = 404
             /\ UNCHANGED store
    ]_vars

(* C7, amended: a step of PUT or DELETE /organizations/:id changes          *)
(* organizations, members or agents only for a caller whose id is the       *)
(* organization's owner_id; any other caller, a member included, is         *)
(* answered by a step that leaves the store as it was: with 404, or, to a   *)
(* PUT whose body is no JSON object, with 500.                              *)
C7_OwnerOnly ==
    [][
        /\ \A s \in DOMAIN req :
             (/\ req[s].op \in {"PutOrg", "DeleteOrg"}
              /\ req'[s] # req[s]
              /\ <<organizations, organization_members, agents>>' #
                     <<organizations, organization_members, agents>>) =>
             \E o \in OrgById(req[s].args.id) : o.owner_id = req[s].args.caller
        /\ (/\ last = NoResponse
            /\ last'.op \in {"PutOrg", "DeleteOrg"}
            /\ \A o \in OrgById(last'.args.id) : o.owner_id # last'.args.caller) =>
             /\ last'.resp.status =
                    IF last'.op = "PutOrg" /\ ~last'.args.json THEN 500 ELSE 404
             /\ UNCHANGED store
    ]_vars

C7_MemberRefused ==
    /\ last.op \in {"PutOrg", "DeleteOrg"}
    /\ last.resp.status = 404
    /\ \E o \in OrgById(last.args.id) :
          /\ o.owner_id # last.args.caller
          /\ \E m \in MembersOf(o) : m.user_id = last.args.caller

(* C28: a POST /organizations answered 201 leaves the new organization with  *)
(* the caller as owner_id and exactly one membership row of the caller for   *)
(* it, with role 'owner'; in every state an organization id names one row,   *)
(* its owner is a user, no step changes an owner_id, and no two membership   *)
(* rows have the same organization and user.                                 *)
C28_CreatorOwns ==
    [][
        /\ \A o, p \in organizations' : o.id = p.id => o = p
        /\ \A o \in organizations' : UserById(o.owner_id)' # {}
        /\ \A o \in organizations, p \in organizations' :
              o.id = p.id => o.owner_id = p.owner_id
        /\ \A m, n \in organization_members' :
              (m.organization_id = n.organization_id /\ m.user_id = n.user_id) => m = n
        /\ (last'.op = "PostOrg" /\ last'.resp.status = 201)
              => /\ \E s \in DOMAIN req : req[s].pc = "orgInsertMember" /\ req'[s] = Idle
                 /\ \E o \in organizations' :
                      /\ o.id = last'.args.id
                      /\ o.owner_id = last'.args.caller
                      /\ last'.resp.organization = o
                 /\ \E m \in organization_members' :
                      /\ m.role = "owner"
                      /\ {n \in organization_members' :
                             /\ n.organization_id = last'.args.id
                             /\ n.user_id = last'.args.caller} = {m}
    ]_vars

C28_SecondOrganization ==
    /\ last.op = "PostOrg"
    /\ last.resp.status = 201
    /\ Cardinality(organizations) = 2
    /\ \E o \in organizations : o.owner_id # last.args.caller
    /\ \E m \in organization_members :
          m.organization_id = last.args.id /\ m.user_id # last.args.caller

(* C29 as stated: POST /agents, PUT /agents/:id and DELETE /agents/:id       *)
(* change the store only for a caller who is owner or member of the agent's  *)
(* organization; any other caller is answered 404 by a step that leaves the  *)
(* store as it was; an owner or member of any role is not answered 404.      *)
C29_AgentWrites404 ==
    [][
        LET Access(op, args) ==
                IF op = "PostAgent" THEN IsOwnerOrMember(args.caller, args.id)
                ELSE \E x \in AgentById(args.id) :
                       IsOwnerOrMember(args.caller, x.organization_id)
            AgentOps == {"PostAgent", "PutAgent", "DeleteAgent"}
        IN  /\ \A s \in DOMAIN req :
                  (req[s].op \in AgentOps /\ req'[s] # req[s] /\ store' # store)
                    => Access(req[s].op, req[s].args)
            /\ (last'.op \in AgentOps /\ ~Access(last'.op, last'.args))
                  => /\ last'.resp.status = 404
                     /\ UNCHANGED store
            /\ (last'.op \in AgentOps /\ last'.resp.status = 404)
                  => ~Access(last'.op, last'.args)
    ]_vars

(* C29, amended: POST /agents, PUT /agents/:id and DELETE /agents/:id change *)
(* the store only for a caller who is owner or member of the agent's         *)
(* organization; any other caller is answered by a step that leaves the      *)
(* store as it was: with 404, or, decided before the access check, with 500  *)
(* for a POST or PUT whose body is no JSON object and with 400 for a POST    *)
(* without organization_id or name; an owner or member of any role is not    *)
(* answered 404.                                                             *)
C29_AgentWrites ==
    [][
        LET Access(op, args) ==
                IF op = "PostAgent" THEN IsOwnerOrMember(args.caller, args.id)
                ELSE \E x \in AgentById(args.id) :
                       IsOwnerOrMember(args.caller, x.organization_id)
            AgentOps == {"PostAgent", "PutAgent", "DeleteAgent"}
        IN  /\ \A s \in DOMAIN req :
                  (req[s].op \in AgentOps /\ req'[s] # req[s] /\ store' # store)
                    => Access(req[s].op, req[s].args)
            /\ (last'.op \in AgentOps /\ ~Access(last'.op, last'.args))
                  => /\ last'.resp.status = (IF last'.op # "DeleteAgent" /\ ~last'.args.json THEN 500
                                              ELSE IF /\ last'.op = "PostAgent"
                                                      /\ \/ last'.args.id = NoId
                                                         \/ ~Truthy(last'.args.name)
                                              THEN 400 ELSE 404)
                     /\ UNCHANGED store
            /\ (last'.op \in AgentOps /\ last'.resp.status = 404)
                  => ~Access(last'.op, last'.args)
    ]_vars

C29_MemberDeletes ==
    /\ last.op = "DeleteAgent"
    /\ last.resp.status = 200
    /\ agents = {}
    /\ \A o \in organizations : o.owner_id # last.args.caller
    /\ \E m \in organization_members :
          m.user_id = last.args.caller /\ m.role = "member"

(* C9: GET /organizations answers 200 with the organizations the caller     *)
(* owns or is a member of, each once, and GET /agents answers 200 with the   *)
(* agents of those organizations, of the one named by organization_id when   *)
(* it is given, each once.                                                   *)
C9_ListingFilters ==
    /\ last.op = "ListOrgs" =>
          /\ last.resp.status = 200
          /\ last.resp.organizations =
                [o \in {x \in organizations : IsOwnerOrMember(last.args.caller, x.id)}
                    |-> 1]
    /\ last.op = "ListAgents" =>
          /\ last.resp.status = 200
          /\ last.resp.agents =
                [a \in {x \in agents :
                           /\ IsOwnerOrMember(last.args.caller, x.organization_id)
                           /\ last.args.organization_id # NoId =>
                                  x.organization_id = last.args.organization_id}
                    |-> 1]

C9_FilteredListing ==
    /\ last.op = "ListOrgs"
    /\ \E o \in organizations :
          /\ o.owner_id = last.args.caller
          /\ Cardinality(MembersOf(o)) = 2
    /\ \E o \in organizations : ~IsOwnerOrMember(last.args.caller, o.id)

-----------------------------------------------------------------------------
(* The website routes *)

MaxWebsites == 2
Domains == {"x.com", "y.org"}
WebsiteIds == 1..MaxWebsites

\* A lookup that also admits a caller sharing an organization with the
\* website's user.
WebsiteShared(websiteId, userId) ==
    {w \in websites :
        /\ w.id = websiteId
        /\ \/ w.user_id = userId
           \/ \E o \in organizations :
                 IsOwnerOrMember(userId, o.id) /\ IsOwnerOrMember(w.user_id, o.id)}

\* SELECT * FROM websites WHERE id = ? AND user_id = ?
WebsiteOf(websiteId, userId) ==
    {w \in websites : w.id = websiteId /\ w.user_id = userId}

\* SELECT * FROM websites WHERE domain = ?
\* A lookup by domain that never finds a website.
NoWebsiteByDomain(domain) == {}

WebsiteByDomain(domain) == {w \in websites : w.domain = domain}

\* GET /websites
ListWebsites(userId) ==
    /\ Answer("ListWebsites", [caller |-> userId],
              [status |-> 200, websites |-> {w \in websites : w.user_id = userId}])
    /\ UNCHANGED <<env, now, advances, store, ids, verified, granted>>

\* POST /websites, up to its INSERT
PostWebsite(s, userId, domain) ==
    /\ req[s] = Idle
    /\ UNCHANGED <<env, now, advances, store, ids, verified, granted>>
    /\ LET args == [caller |-> userId, domain |-> domain] IN
       IF ~Truthy(domain)
       THEN Respond(s, "PostWebsite", args, ErrorResponse(400, "Missing domain"))
       ELSE IF WebsiteByDomain(domain) # {}
       THEN Respond(s, "PostWebsite", args, ErrorResponse(409, "Domain already exists"))
       ELSE /\ ids.website + Pending({"websiteInsert"}) < MaxWebsites
            /\ Continue(s, [op |-> "PostWebsite", pc |-> "websiteInsert", args |-> args,
                            loc |-> <<>>])

\* INSERT INTO websites (id, user_id, domain, ...); domain is UNIQUE and the
\* user a foreign key.  Then SELECT * FROM websites WHERE id = ? and the 201.
PostWebsiteInsert(s) ==
    /\ req[s].pc = "websiteInsert"
    /\ UNCHANGED <<env, now, advances, users, otp_codes, organizations, organization_members,
                   agents, usage_records, verified, granted>>
    /\ ids' = [ids EXCEPT !.website = @ + 1]
    /\ LET row == [id |-> ids.website + 1, user_id |-> req[s].args.caller,
                   domain |-> req[s].args.domain]
       IN IF WebsiteByDomain(row.domain) # {} \/ UserById(row.user_id) = {}
          THEN /\ Respond(s, "PostWebsite", req[s].args,
                          ErrorResponse(500, "Failed to add website"))
               /\ UNCHANGED websites
          ELSE /\ websites' = websites \cup {row}
               /\ Respond(s, "PostWebsite", req[s].args, [status |-> 201, website |-> row])

\* GET /websites/:id
GetWebsite(userId, websiteId) ==
    /\ Answer("GetWebsite", [caller |-> userId, id |-> websiteId],
              IF WebsiteOf(websiteId, userId) = {}
              THEN ErrorResponse(404, "Website not found")
              ELSE [status |-> 200, website |-> FirstOf(WebsiteOf(websiteId, userId))])
    /\ UNCHANGED <<env, now, advances, store, ids, verified, granted>>

\* DELETE /websites/:id, up to its DELETE
DeleteWebsite(s, userId, websiteId) ==
    /\ req[s] = Idle
    /\ UNCHANGED <<env, now, advances, store, ids, verified, granted>>
    /\ LET args == [caller |-> userId, id |-> websiteId] IN
       IF WebsiteOf(websiteId, userId) = {}
       THEN Respond(s, "DeleteWebsite", args, ErrorResponse(404, "Website not found"))
       ELSE Continue(s, [op |-> "DeleteWebsite", pc |-> "websiteDelete", args |-> args,
                         loc |-> <<>>])

\* DELETE FROM websites WHERE id = ?
DeleteWebsiteRun(s) ==
    /\ req[s].pc = "websiteDelete"
    /\ websites' = {w \in websites : w.id # req[s].args.id}
    /\ Respond(s, "DeleteWebsite", req[s].args,
               [status |-> 200, message |-> "Website deleted"])
    /\ UNCHANGED <<env, now, advances, users, otp_codes, organizations, organization_members,
                   agents, usage_records, ids, verified, granted>>

\* The website routes, two requests in flight at once, over a store in which
\* user 1 has created an organization that user 2 may be made a member of.
InitWeb ==
    /\ env = [JWT_SECRET |-> JWT_SECRET]
    /\ now \in StartTimes
    /\ advances = 0
    /\ users = SeededUsers
    /\ otp_codes = {}
    /\ organizations = {[id |-> 1, name |-> "Acme", url_slug |-> <<"acme">>,
                         owner_id |-> 1]}
    /\ organization_members =
           {[id |-> 1, organization_id |-> 1, user_id |-> 1, role |-> "owner"]}
    /\ ids = [NoIds EXCEPT !.org = 1, !.member = 1]
    /\ agents = {}
    /\ usage_records = {}
    /\ websites = {}
    /\ req = [s \in Slots |-> Idle]
    /\ last = NoResponse
    /\ verified = {}
    /\ granted = {}

NextWeb ==
    \/ \E u \in UserIds : ListWebsites(u)
    \/ \E s \in DOMAIN req, u \in UserIds, d \in Domains \cup {NoValue} :
         PostWebsite(s, u, d)
    \/ \E s \in DOMAIN req : PostWebsiteInsert(s)
    \/ \E u \in UserIds, w \in WebsiteIds : GetWebsite(u, w)
    \/ \E s \in DOMAIN req, u \in UserIds, w \in WebsiteIds : DeleteWebsite(s, u, w)
    \/ \E s \in DOMAIN req : DeleteWebsiteRun(s)
    \/ \E o \in OrgIds, u \in UserIds, r \in Roles : SeedMember(o, u, r)
    \/ Deliver

SpecWeb == InitWeb /\ [][NextWeb]_vars

(* C8: GET /websites/:id answers 200 exactly when the website's user_id is  *)
(* the caller's id and 404 otherwise; DELETE /websites/:id goes on to its   *)
(* DELETE exactly when the website's user_id is the caller's id and         *)
(* otherwise answers 404 with the websites left as they were; a website is  *)
(* removed only by a DELETE of its own user; organizations and memberships  *)
(* shared by the two users change none of this.                             *)
C8_WebsiteOwner ==
    [][
        /\ (last = NoResponse /\ last'.op = "GetWebsite") =>
             /\ last'.resp.status \in {200, 404}
             /\ last'.resp.status = 200 <=>
                    \E w \in websites :
                       w.id = last'.args.id /\ w.user_id = last'.args.caller
        /\ \A s \in DOMAIN req :
             (req[s] = Idle /\ req'[s].op = "DeleteWebsite") =>
             \E w \in websites :
                w.id = req'[s].args.id /\ w.user_id = req'[s].args.caller
        /\ (last = NoResponse /\ req' = req /\ last'.op = "DeleteWebsite") =>
             /\ ~\E w \in websites :
                   w.id = last'.args.id /\ w.user_id = last'.args.caller
             /\ last'.resp.status = 404
             /\ websites' = websites
        /\ \A w \in websites \ websites' :
             \E s \in DOMAIN req :
                /\ req[s].op = "DeleteWebsite"
                /\ req[s].args.id = w.id
                /\ req[s].args.caller = w.user_id
    ]_vars

C8_SharedOrgRefused ==
    /\ last.op \in {"GetWebsite", "DeleteWebsite"}
    /\ last.resp.status = 404
    /\ \E w \in websites :
          /\ w.id = last.args.id
          /\ w.user_id # last.args.caller
          /\ \E o \in organizations :
                /\ IsOwnerOrMember(last.args.caller, o.id)
                /\ IsOwnerOrMember(w.user_id, o.id)

-----------------------------------------------------------------------------
(* The usage routes *)

MaxUsage == 2
Credits == {1, 2}
Dates == {1, 2}          \* record_date values; 'YYYY-MM-DD' strings compare as dates do
NoDate == 0              \* an absent start_date or end_date
TotalCreditsLimit == 1100
TotalAgentsLimit == 10

\* AND record_date >= ? AND record_date <= ?, each when its parameter is given
InRange(r, startDate, endDate) ==
    /\ startDate # NoDate => r.record_date >= startDate
    /\ endDate # NoDate => r.record_date <= endDate

\* SUM(credits_used), 0 over no rows
RECURSIVE SumCredits(_)
SumCredits(rows) ==
    IF rows = {} THEN 0
    ELSE LET r == CHOOSE x \in rows : TRUE
         IN r.credits_used + SumCredits(rows \ {r})

\* The sum without the organization condition.
AllCredits(records, orgId, startDate, endDate) ==
    SumCredits({r \in records : InRange(r, startDate, endDate)})

\* SELECT COALESCE(SUM(credits_used), 0) FROM usage_records
\*   WHERE organization_id = ? [AND record_date >= ?] [AND record_date <= ?]
TotalCredits(records, orgId, startDate, endDate) ==
    SumCredits({r \in records :
                  r.organization_id = orgId /\ InRange(r, startDate, endDate)})

\* SELECT COUNT(*) FROM agents WHERE organization_id = ?
CountAgents(ags, orgId) == Cardinality({a \in ags : a.organization_id = orgId})

\* SELECT record_date, SUM(credits_used) FROM usage_records
\*   WHERE organization_id = ? [...] GROUP BY record_date
History(records, orgId, startDate, endDate) ==
    LET rows == {r \in records :
                   r.organization_id = orgId /\ InRange(r, startDate, endDate)}
    IN {[record_date |-> d,
         credits_used |-> SumCredits({r \in rows : r.record_date = d})] :
           d \in {r.record_date : r \in rows}}

\* SELECT a.id, a.name, COALESCE(SUM(ur.credits_used), 0) FROM agents a
\*   LEFT JOIN usage_records ur ON a.id = ur.agent_id AND ur.organization_id = ? [...]
\*   WHERE a.organization_id = ? GROUP BY a.id, a.name
ByAgent(ags, records, orgId, startDate, endDate) ==
    {[agent_id |-> a.id, agent_name |-> a.name,
      credits_used |-> SumCredits({r \in records :
                                     /\ r.agent_id = a.id
                                     /\ r.organization_id = orgId
                                     /\ InRange(r, startDate, endDate)})] :
        a \in {x \in ags : x.organization_id = orgId}}

\* The access check the three routes begin with.
UsageCheck(s, op, pc, userId, orgId, startDate, endDate) ==
    /\ req[s] = Idle
    /\ UNCHANGED <<env, now, advances, store, ids, verified, granted>>
    /\ LET args == [caller |-> userId, id |-> orgId, start_date |-> startDate,
                    end_date |-> endDate]
       IN IF OrgAccess(orgId, userId) = {}
          THEN Respond(s, op, args,
                       ErrorResponse(404, "Organization not found or access denied"))
          ELSE Continue(s, [op |-> op, pc |-> pc, args |-> args, loc |-> <<>>])

\* GET /usage/:organization_id
UsageSummary(s, userId, orgId, startDate, endDate) ==
    UsageCheck(s, "UsageSummary", "usageCredits", userId, orgId, startDate, endDate)

UsageSummaryCredits(s) ==
    /\ req[s].pc = "usageCredits"
    /\ Continue(s, [req[s] EXCEPT
                      !.pc = "usageAgents",
                      !.loc = [credits |->
                                 TotalCredits(usage_records, req[s].args.id,
                                              req[s].args.start_date,
                                              req[s].args.end_date)]])
    /\ UNCHANGED <<env, now, advances, store, ids, verified, granted>>

UsageSummaryAgents(s) ==
    /\ req[s].pc = "usageAgents"
    /\ Respond(s, "UsageSummary", req[s].args,
               [status |-> 200,
                credits_used |-> req[s].loc.credits,
                total_credits |-> TotalCreditsLimit,
                agents_used |-> CountAgents(agents, req[s].args.id),
                total_agents |-> TotalAgentsLimit])
    /\ UNCHANGED <<env, now, advances, store, ids, verified, granted>>

\* GET /usage/:organization_id/history
UsageHistory(s, userId, orgId, startDate, endDate) ==
    UsageCheck(s, "UsageHistory", "usageHistory", userId, orgId, startDate, endDate)

UsageHistoryQuery(s) ==
    /\ req[s].pc = "usageHistory"
    /\ Respond(s, "UsageHistory", req[s].args,
               [status |-> 200,
                history |-> History(usage_records, req[s].args.id,
                                    req[s].args.start_date, req[s].args.end_date)])
    /\ UNCHANGED <<env, now, advances, store, ids, verified, granted>>

\* GET /usage/:organization_id/by-agent
UsageByAgent(s, userId, orgId, startDate, endDate) ==
    UsageCheck(s, "UsageByAgent", "usageByAgent", userId, orgId, startDate, endDate)

UsageByAgentQuery(s) ==
    /\ req[s].pc = "usageByAgent"
    /\ Respond(s, "UsageByAgent", req[s].args,
               [status |-> 200,
                by_agent |-> ByAgent(agents, usage_records, req[s].args.id,
                                     req[s].args.start_date, req[s].args.end_date)])
    /\ UNCHANGED <<env, now, advances, store, ids, verified, granted>>

\* No route writes usage_records; rows come from outside, within the table's
\* foreign keys and its UNIQUE(organization_id, agent_id, record_date), which
\* a NULL agent_id never violates.
SeedUsage(orgId, agentId, credits, date) ==
    /\ last = NoResponse
    /\ ids.usage < MaxUsage
    /\ OrgById(orgId) # {}
    /\ agentId # NoId => AgentById(agentId) # {}
    /\ agentId # NoId =>
          ~\E r \in usage_records :
              /\ r.organization_id = orgId
              /\ r.agent_id = agentId
              /\ r.record_date = date
    /\ usage_records' = usage_records \cup
           {[id |-> ids.usage + 1, organization_id |-> orgId, agent_id |-> agentId,
             credits_used |-> credits, record_date |-> date]}
    /\ ids' = [ids EXCEPT !.usage = @ + 1]
    /\ last' = NoResponse
    /\ UNCHANGED <<env, now, advances, users, otp_codes, organizations, organization_members,
                   agents, websites, req, verified, granted>>

\* The usage routes, one request at a time, over a store in which each user
\* has created an organization and user 1 an agent in the first.
InitUsage ==
    /\ env = [JWT_SECRET |-> JWT_SECRET]
    /\ now \in StartTimes
    /\ advances = 0
    /\ users = SeededUsers
    /\ otp_codes = {}
    /\ organizations =
           {[id |-> 1, name |-> "Acme", url_slug |-> <<"acme">>, owner_id |-> 1],
            [id |-> 2, name |-> "Acme", url_slug |-> <<"acme", "r1">>, owner_id |-> 2]}
    /\ organization_members =
           {[id |-> 1, organization_id |-> 1, user_id |-> 1, role |-> "owner"],
            [id |-> 2, organization_id |-> 2, user_id |-> 2, role |-> "owner"]}
    /\ agents = {[id |-> 1, organization_id |-> 1, name |-> "bot"]}
    /\ usage_records = {}
    /\ websites = {}
    /\ ids = [NoIds EXCEPT !.org = 2, !.member = 2, !.agent = 1]
    /\ req = [s \in {1} |-> Idle]
    /\ last = NoResponse
    /\ verified = {}
    /\ granted = {}

UsageOps == {"UsageSummary", "UsageHistory", "UsageByAgent"}

NextUsage ==
    \/ \E s \in DOMAIN req, u \in UserIds, o \in OrgIds, a \in {NoDate, 2},
          b \in {NoDate, 1} : UsageSummary(s, u, o, a, b)
    \/ \E s \in DOMAIN req : UsageSummaryCredits(s)
    \/ \E s \in DOMAIN req : UsageSummaryAgents(s)
    \/ \E s \in DOMAIN req, u \in UserIds, o \in OrgIds, a \in {NoDate, 2},
          b \in {NoDate, 1} : UsageHistory(s, u, o, a, b)
    \/ \E s \in DOMAIN req : UsageHistoryQuery(s)
    \/ \E s \in DOMAIN req, u \in UserIds, o \in OrgIds, a \in {NoDate, 2},
          b \in {NoDate, 1} : UsageByAgent(s, u, o, a, b)
    \/ \E s \in DOMAIN req : UsageByAgentQuery(s)
    \/ \E o \in OrgIds, a \in AgentIds \cup {NoId}, c \in Credits, d \in Dates :
         SeedUsage(o, a, c, d)
    \/ \E o \in OrgIds, u \in UserIds, r \in Roles : SeedMember(o, u, r)
    \/ Deliver

SpecUsage == InitUsage /\ [][NextUsage]_vars

(* C10: each usage route goes past its check only for a caller who is owner *)
(* or member of the organization and answers any other caller 404; the      *)
(* figures it then returns are those of the store with every usage record   *)
(* and agent of another organization taken away.                            *)
C10_UsageAccess ==
    [][
        /\ \A s \in DOMAIN req :
             (req[s] = Idle /\ req'[s].op \in UsageOps) =>
             IsOwnerOrMember(req'[s].args.caller, req'[s].args.id)
        /\ (last = NoResponse /\ req' = req /\ last'.op \in UsageOps) =>
             /\ ~IsOwnerOrMember(last'.args.caller, last'.args.id)
             /\ last'.resp.status = 404
        /\ \A s \in DOMAIN req :
             LET a == req[s].args
                 own == {r \in usage_records : r.organization_id = a.id}
                 ownAgents == {x \in agents : x.organization_id = a.id}
             IN /\ (req[s].pc = "usageCredits" /\ req'[s].pc = "usageAgents") =>
                     req'[s].loc.credits =
                        TotalCredits(own, a.id, a.start_date, a.end_date)
                /\ (req[s].pc = "usageAgents" /\ req'[s] = Idle) =>
                     /\ last'.resp.status = 200
                     /\ last'.resp.credits_used = req[s].loc.credits
                     /\ last'.resp.agents_used = CountAgents(ownAgents, a.id)
                /\ (req[s].pc = "usageHistory" /\ req'[s] = Idle) =>
                     /\ last'.resp.status = 200
                     /\ last'.resp.history =
                           History(own, a.id, a.start_date, a.end_date)
                /\ (req[s].pc = "usageByAgent" /\ req'[s] = Idle) =>
                     /\ last'.resp.status = 200
                     /\ last'.resp.by_agent =
                           ByAgent(ownAgents, own, a.id, a.start_date, a.end_date)
    ]_vars

C10_OtherOrgRecords ==
    /\ last.op = "UsageSummary"
    /\ last.resp.status = 200
    /\ last.resp.credits_used > 0
    /\ \E m \in organization_members :
          /\ m.organization_id = last.args.id
          /\ m.user_id = last.args.caller
          /\ m.role # "owner"
    /\ \E r \in usage_records : r.organization_id # last.args.id

-----------------------------------------------------------------------------
(* signJWT and verifyJWT on their own *)

\* The claims tokens are made from, with an ASCII address, one with a quote,
\* one with a Latin-1 letter, one with the euro sign; and the secrets: one,
\* the same with a NUL after it, another one, and the empty one.
TokenClaims ==
    {[ClaimsFor(1, "a@x.io") EXCEPT !.email = e] :
        e \in {<<97, 64, 120>>, <<34, 64, 120>>, <<233, 64, 120>>, <<8364, 64, 120>>}}
Secrets == {<<107>>, <<107, 0>>, <<113>>, <<>>}

\* What is done to a token between its signing and its verification.
NoEdit == [kind |-> "none", at |-> 0, by |-> Lit(0)]

RECURSIVE Join(_, _)
Join(parts, sep) ==
    IF Len(parts) = 1 THEN parts[1]
    ELSE parts[1] \o <<Lit(sep)>> \o Join(Tail(parts), sep)

\* A character of the signature segment replaced by '=', '.', ' ', '!' or
\* 'A', or by a base64 character whose value differs from its own in the
\* bits 1, 2, 3, 4, 32 or 63; a segment added, the last segments cut off, a
\* segment emptied.
Edits(token) ==
    LET parts == Split(token, CharDot)
        Replacements(ch) ==
            ({Lit(c) : c \in {CharEquals, CharDot, 32, 33, 65}} \ {ch})
            \cup (IF ch.mac = <<>> THEN {}
                  ELSE {[ch EXCEPT !.x = d] : d \in {1, 2, 3, 4, 32, 63}})
    IN  UNION {{[kind |-> "replace", at |-> k, by |-> c] : c \in Replacements(parts[3][k])} :
                   k \in 1..Len(parts[3])}
        \cup {[kind |-> "append", at |-> 4, by |-> Lit(120)]}
        \cup {[kind |-> k, at |-> n, by |-> Lit(0)] : k \in {"cut", "blank"}, n \in 1..2}
        \cup {[kind |-> "blank", at |-> 3, by |-> Lit(0)]}

Edited(token, e) ==
    LET parts == Split(token, CharDot)
    IN  CASE e.kind = "replace" ->
                 Join([parts EXCEPT ![3] = [@ EXCEPT ![e.at] = e.by]], CharDot)
          [] e.kind = "append" -> token \o <<Lit(CharDot), e.by>>
          [] e.kind = "cut" -> Join(SubSeq(parts, 1, e.at), CharDot)
          [] e.kind = "blank" -> Join([parts EXCEPT ![e.at] = <<>>], CharDot)
          [] OTHER -> token

\* A token of exactly three non-empty segments.
ThreeSegments(token) ==
    /\ Len(Split(token, CharDot)) = 3
    /\ \A k \in 1..3 : Split(token, CharDot)[k] # <<>>

SignToken(s) ==
    /\ req[s].pc = "sign"
    /\ UNCHANGED <<env, now, advances, store, ids, verified, granted>>
    /\ LET token == signJWT(req[s].args.payload, req[s].args.secret)
       IN  IF token.ok
           THEN Continue(s, [req[s] EXCEPT !.pc = "signed",
                                           !.loc = [token |-> token.value, edit |-> NoEdit]])
           ELSE Respond(s, "signJWT", req[s].args, [status |-> "thrown"])

EditToken(s) ==
    /\ req[s].pc = "signed"
    /\ UNCHANGED <<env, now, advances, store, ids, verified, granted>>
    /\ \E e \in Edits(req[s].loc.token) :
         Continue(s, [req[s] EXCEPT !.pc = "edited",
                                    !.loc = [token |-> Edited(req[s].loc.token, e),
                                             edit |-> e]])

VerifyToken(s, secret) ==
    /\ req[s].pc \in {"signed", "edited"}
    /\ UNCHANGED <<env, now, advances, store, ids, verified, granted>>
    /\ Respond(s, "verifyJWT",
               [payload |-> req[s].args.payload, secret |-> req[s].args.secret,
                key |-> secret, token |-> req[s].loc.token, edit |-> req[s].loc.edit],
               [status |-> "returned", value |-> verifyJWT(req[s].loc.token, secret)])

InitJwt ==
    /\ env = [JWT_SECRET |-> JWT_SECRET]
    /\ now \in StartTimes
    /\ advances = 0
    /\ users = {}
    /\ otp_codes = {}
    /\ organizations = {}
    /\ organization_members = {}
    /\ agents = {}
    /\ usage_records = {}
    /\ websites = {}
    /\ ids = NoIds
    /\ req \in {[s \in {1} |-> [op |-> "token", pc |-> "sign",
                                args |-> [payload |-> c, secret |-> k], loc |-> <<>>]] :
                   c \in TokenClaims, k \in Secrets}
    /\ last = NoResponse
    /\ verified = {}
    /\ granted = {}

NextJwt ==
    \/ \E s \in DOMAIN req : SignToken(s)
    \/ \E s \in DOMAIN req : EditToken(s)
    \/ \E s \in DOMAIN req, k \in Secrets : VerifyToken(s, k)
    \/ Deliver

SpecJwt == InitJwt /\ [][NextJwt]_vars

(* C11: a token signed from any claims under any secret verifies under that
   secret to the same claims; in particular signing under a secret that can
   key an HMAC gives a token. *)
C11_RoundTrip ==
    /\ (last.op = "signJWT" /\ importKey(last.args.secret).ok)
          => last.resp.status # "thrown"
    /\ (last.op = "verifyJWT" /\ last.args.edit = NoEdit /\ last.args.key = last.args.secret)
          => last.resp.value = last.args.payload

(* C12: verifyJWT returns null for every token that does not split on '.'
   into exactly three non-empty segments, a valid token followed by further
   segments included. *)
C12_Structure ==
    (last.op = "verifyJWT" /\ ~ThreeSegments(last.args.token))
      => last.resp.value = Null

(* C13 as stated: a token signed under one secret is null under every other
   secret. *)
C13_WrongSecret ==
    (last.op = "verifyJWT" /\ last.args.edit = NoEdit
       /\ last.args.key # last.args.secret)
      => last.resp.value = Null

(* C13: a token signed under one secret is null under every secret that
   gives another HMAC key, that is, one that differs from it other than in
   zero bytes at the end. *)
C13_WrongKey ==
    (last.op = "verifyJWT" /\ last.args.edit = NoEdit
       /\ importKey(last.args.key) # importKey(last.args.secret))
      => last.resp.value = Null

C13_OtherKeyRefused ==
    /\ last.op = "verifyJWT"
    /\ last.args.edit = NoEdit
    /\ importKey(last.args.key).ok
    /\ importKey(last.args.key) # importKey(last.args.secret)
    /\ last.resp.value = Null

(* C14: a valid token in which one character of the signature segment has
   been replaced by a different character is null under the secret it was
   signed with. *)
C14_Tamper ==
    (last.op = "verifyJWT" /\ last.args.edit.kind = "replace"
       /\ last.args.key = last.args.secret)
      => last.resp.value = Null

-----------------------------------------------------------------------------
(* authMiddleware in front of the website routes *)

\* The user a user id's text names, if any.
IdOf(text) ==
    IF \E id \in UserIds : ClaimsFor(id, "a@x.io").userId = text
    THEN CHOOSE id \in UserIds : ClaimsFor(id, "a@x.io").userId = text
    ELSE NoId

\* The Authorization headers of the model, by name: none, the empty one,
\* the tokens of users 1 and 2, user 1's token without the prefix, after
\* 'bearer ', after 'Bearer' and no space; no token after the prefix; user
\* 1's token with a further segment, signed under another secret, with a
\* flipped signature bit, without its signature; a token signed under
\* JWT_SECRET over a claims segment that is cut short, and over one that is
\* not base64; and a word.
Headers ==
    LET Forged(encodedPayload) ==
            LET data == btoa(Str(Stringify(Header))).value \o <<Lit(CharDot)>>
                        \o encodedPayload
            IN  data \o <<Lit(CharDot)>>
                \o btoa(HmacSign(importKey(JWT_SECRET).value, data)).value
        claims1 == ClaimsFor(1, "a@x.io")
        token1 == UserTokens[JWT_SECRET, 1, "a@x.io"].value
        token2 == UserTokens[JWT_SECRET, 2, "b@x.io"].value
        Value(value) == [present |-> TRUE, value |-> value]
        Bearer(token) == Value(Str(Text.Bearer) \o token)
    IN  [none |-> [present |-> FALSE, value |-> <<>>],
         empty |-> Value(<<>>),
         user1 |-> Bearer(token1),
         user2 |-> Bearer(token2),
         bare |-> Value(token1),
         lower |-> Value(Str(<<98, 101, 97, 114, 101, 114, 32>>) \o token1),
         nospace |-> Value(Str(<<66, 101, 97, 114, 101, 114>>) \o token1),
         blank |-> Bearer(<<>>),
         extra |-> Bearer(Edited(token1, [kind |-> "append", at |-> 4, by |-> Lit(120)])),
         othersecret |-> Bearer(signJWT(claims1, <<107>>).value),
         tampered |-> Bearer(Edited(token1,
                                    [kind |-> "replace", at |-> 1,
                                     by |-> [Split(token1, CharDot)[3][1] EXCEPT !.x = 1]])),
         cut |-> Bearer(Edited(token1, [kind |-> "cut", at |-> 2, by |-> Lit(0)])),
         badjson |-> Bearer(Forged(btoa(Str(SubSeq(Stringify(Members(claims1)), 1, 9))).value)),
         badbase64 |-> Bearer(Forged(Str(<<33, 33>>))),
         word |-> Bearer(Str(<<97, 98, 99>>))]

\* A prefix test that every string passes.
AnyPrefix(str, prefix) == TRUE

StartsWith(str, prefix) ==
    Len(str) >= Len(prefix) /\ SubSeq(str, 1, Len(prefix)) = prefix

\* One request's context, as another request that keeps it would leave it.
SharedContext(s, payload) ==
    IF \E t \in DOMAIN req : t # s /\ req[t].pc = "next"
    THEN req[CHOOSE t \in DOMAIN req : t # s /\ req[t].pc = "next"].loc
    ELSE [userId |-> payload.userId, userEmail |-> payload.email]

\* c.set('userId', payload.userId); c.set('userEmail', payload.email), on
\* the context object of this request.
Context(s, payload) == [userId |-> payload.userId, userEmail |-> payload.email]

\* authMiddleware up to next(): the 401 it answers, or the claims it passes
\* on.  An exception, if verifyJWT let one out, would leave the middleware
\* too and be answered by the framework's error handler.
authResult(header, secret) ==
    IF ~header.present \/ header.value = <<>> \/ ~StartsWith(header.value, Str(Text.Bearer))
    THEN ErrorResponse(401, "Unauthorized")
    ELSE LET token == SubSeq(header.value, Len(Text.Bearer) + 1, Len(header.value))
             payload == verifyJWT(token, secret)
         IN  IF payload = Null THEN ErrorResponse(401, "Invalid token")
             ELSE IF "thrown" \in DOMAIN payload
             THEN ErrorResponse(500, "Internal Server Error")
             ELSE [status |-> 0, error |-> "", payload |-> payload]

\* The decisions on the headers of the model, taken once.
Decisions == [secret \in Bindings, h \in DOMAIN Headers |-> authResult(Headers[h], secret)]

\* The routes behind the middleware in this part, with their parameters.
Routes ==
    {[op |-> "ListWebsites", domain |-> NoValue, id |-> NoId],
     [op |-> "PostWebsite", domain |-> "x.com", id |-> NoId],
     [op |-> "DeleteWebsite", domain |-> NoValue, id |-> 1]}

authMiddleware(s, h, route) ==
    /\ req[s] = Idle
    /\ UNCHANGED <<env, now, advances, store, ids, verified, granted>>
    /\ IF Decisions[env.JWT_SECRET, h].status # 0
       THEN Respond(s, "authMiddleware", [header |-> h, route |-> route.op], Decisions[env.JWT_SECRET, h])
       ELSE Continue(s, [op |-> route.op, pc |-> "next",
                         args |-> [header |-> h, domain |-> route.domain, id |-> route.id],
                         loc |-> Context(s, Decisions[env.JWT_SECRET, h].payload)])

\* next(): the handler, from c.get('userId') to its first statement's answer.
Handler(s) ==
    /\ req[s].pc = "next"
    /\ UNCHANGED <<env, now, advances, store, ids, verified, granted>>
    /\ LET userId == IdOf(req[s].loc.userId)
           args == [caller |-> userId, header |-> req[s].args.header,
                    domain |-> req[s].args.domain, id |-> req[s].args.id]
       IN  CASE req[s].op = "ListWebsites" ->
                  Respond(s, "ListWebsites", args,
                          [status |-> 200, websites |-> {w \in websites : w.user_id = userId}])
             [] req[s].op = "PostWebsite" ->
                  IF ~Truthy(args.domain)
                  THEN Respond(s, "PostWebsite", args, ErrorResponse(400, "Missing domain"))
                  ELSE IF WebsiteByDomain(args.domain) # {}
                  THEN Respond(s, "PostWebsite", args,
                               ErrorResponse(409, "Domain already exists"))
                  ELSE /\ ids.website + Pending({"websiteInsert"}) < MaxWebsites
                       /\ Continue(s, [op |-> "PostWebsite", pc |-> "websiteInsert",
                                       args |-> args, loc |-> <<>>])
             [] req[s].op = "DeleteWebsite" ->
                  IF WebsiteOf(args.id, userId) = {}
                  THEN Respond(s, "DeleteWebsite", args,
                               ErrorResponse(404, "Website not found"))
                  ELSE Continue(s, [op |-> "DeleteWebsite", pc |-> "websiteDelete",
                                    args |-> args, loc |-> <<>>])

\* Users 1 and 2, a code sent to user 1 and not yet used, two requests in
\* flight at once.
InitGuard ==
    /\ env = [JWT_SECRET |-> JWT_SECRET]
    /\ now \in StartTimes
    /\ advances = 0
    /\ users = SeededUsers
    /\ otp_codes = {[id |-> 1, email |-> "a@x.io", code |-> "123456",
                     expires_at |-> toISOString(now + OtpLifetimeMs), used |-> FALSE,
                     created_at |-> datetime(now)]}
    /\ organizations = {}
    /\ organization_members = {}
    /\ agents = {}
    /\ usage_records = {}
    /\ websites = {}
    /\ ids = [NoIds EXCEPT !.otp = 1, !.user = 2]
    /\ req = [s \in Slots |-> Idle]
    /\ last = NoResponse
    /\ verified = {}
    /\ granted = {}

NextGuard ==
    \/ \E s \in DOMAIN req, h \in DOMAIN Headers, r \in Routes : authMiddleware(s, h, r)
    \/ \E s \in DOMAIN req : Handler(s)
    \/ \E s \in DOMAIN req : PostWebsiteInsert(s)
    \/ \E s \in DOMAIN req : DeleteWebsiteRun(s)
    \/ \E s \in DOMAIN req : OtpVerify(s, "a@x.io", "123456")
    \/ \E s \in DOMAIN req : OtpVerifyMark(s)
    \/ \E s \in DOMAIN req : OtpVerifyFindUser(s)
    \/ \E d \in ClockSteps : Advance(d)
    \/ Deliver

SpecGuard == InitGuard /\ [][NextGuard]_vars

\* The headers that begin with 'Bearer '.
BearerNames ==
    {h \in DOMAIN Headers :
        /\ Headers[h].present
        /\ Len(Headers[h].value) >= Len(Text.Bearer)
        /\ SubSeq(Headers[h].value, 1, Len(Text.Bearer)) = Str(Text.Bearer)}

\* verifyJWT on the tokens of the model under the secret of the worker,
\* another secret and the empty secret.
Verdicts ==
    [h \in BearerNames, k \in {JWT_SECRET, <<107>>, <<>>} |->
        verifyJWT(SubSeq(Headers[h].value, Len(Text.Bearer) + 1, Len(Headers[h].value)), k)]

(* C15: verifyJWT returns the claims or null and never throws, whatever is
   wrong with the token or the secret; a request refused for its token is
   answered 401 and leaves the store and every other request as they were. *)
C15_NeverThrows ==
    [][
        /\ \A h \in BearerNames, k \in {JWT_SECRET, <<107>>, <<>>} :
              Verdicts[h, k] = Null \/ DOMAIN Verdicts[h, k] = {"userId", "email"}
        /\ last'.op = "authMiddleware"
              => /\ last'.resp.status = 401
                 /\ req' = req
                 /\ UNCHANGED <<env, now, advances, store, ids, verified, granted>>
    ]_vars

C15_RefusedBesideAccepted ==
    /\ last.op = "authMiddleware"
    /\ last.args.header \in {"badjson", "badbase64", "tampered", "cut"}
    /\ last.resp = ErrorResponse(401, "Invalid token")
    /\ \E s \in DOMAIN req : req[s].pc = "next"

\* The claims a header's token verifies to under JWT_SECRET, or null.
ClaimsOf ==
    [h \in DOMAIN Headers |-> IF h \in BearerNames THEN Verdicts[h, JWT_SECRET] ELSE Null]

(* C16: a request enters a protected handler if and only if its
   Authorization header starts with 'Bearer ' and the rest verifies under
   JWT_SECRET; without the header or the prefix it is answered 401
   'Unauthorized', with an invalid token 401 'Invalid token', and in both
   cases nothing of the store is read or written and no handler step runs. *)
C16_Gate ==
    [][
        /\ \A s \in DOMAIN req :
              (req[s] = Idle /\ req'[s].op \in {r.op : r \in Routes})
                => req'[s].pc = "next" /\ ClaimsOf[req'[s].args.header] # Null
        /\ \A s \in DOMAIN req :
              req[s].op \in {r.op : r \in Routes} => ClaimsOf[req[s].args.header] # Null
        /\ last.op \in {r.op : r \in Routes} => ClaimsOf[last.args.header] # Null
        /\ last'.op = "authMiddleware"
              => /\ ClaimsOf[last'.args.header] = Null
                 /\ last'.resp = (IF last'.args.header \in BearerNames
                                  THEN ErrorResponse(401, "Invalid token")
                                  ELSE ErrorResponse(401, "Unauthorized"))
                 /\ req' = req
                 /\ UNCHANGED store
    ]_vars

C16_RefusedAtGate ==
    /\ last.op = "authMiddleware"
    /\ last.args.header = "lower"
    /\ last.resp = ErrorResponse(401, "Unauthorized")
    /\ \E s \in DOMAIN req : req[s].op = "PostWebsite" /\ req[s].pc = "websiteInsert"

(* C17: the userId and userEmail a protected handler reads are the userId
   and email claims of the token its own request presented, also while
   another request with another token is in flight. *)
C17_Binding ==
    /\ \A s \in DOMAIN req :
          req[s].pc = "next"
            => /\ req[s].loc.userId = ClaimsOf[req[s].args.header].userId
               /\ req[s].loc.userEmail = ClaimsOf[req[s].args.header].email
    /\ \A s \in DOMAIN req :
          req[s].op \in {r.op : r \in Routes} /\ req[s].pc # "next"
            => req[s].args.caller = IdOf(ClaimsOf[req[s].args.header].userId)
    /\ last.op \in {r.op : r \in Routes}
          => last.args.caller = IdOf(ClaimsOf[last.args.header].userId)

C17_TwoIdentities ==
    /\ req[1].pc = "next"
    /\ req[2].pc = "next"
    /\ req[1].loc.userId # req[2].loc.userId
    /\ req[1].args.header = "user1"
    /\ req[2].args.header = "user2"

\* The headers that carry a token the worker has issued.
IssuedHeaders == {"user1", "user2", "extra"}

(* C18: whatever the worker has done before (codes issued and used, logins,
   websites added and deleted, time passed), the middleware accepts the
   headers that carry an issued token and refuses the others: a request
   behind the gate carries one of the former, a request answered by the
   gate one of the latter. *)
C18_DecisionFixed ==
    /\ \A s \in DOMAIN req : req[s].pc = "next" => req[s].args.header \in IssuedHeaders
    /\ last.op = "authMiddleware" => last.args.header \notin IssuedHeaders

C18_AcceptedAfterwards ==
    /\ last.op = "ListWebsites"
    /\ last.args.header = "user1"
    /\ last.resp.status = 200
    /\ granted # {}
    /\ \E r \in otp_codes : r.used
    /\ ids.website > 0
    /\ websites = {}
    /\ advances = MaxAdvances

-----------------------------------------------------------------------------
(* hashPassword, verifyPassword and POST /auth/login *)

\* crypto.subtle.digest('SHA-256', data): the digest is a function of the
\* data, and digests of different data differ in every byte the model
\* compares; no digest is an HMAC tag.
Sha256(data) ==
    LET tag == <<<<-1>>, data>>
    IN  [k \in 1..TagBytes |-> [mac |-> tag, i |-> k, x |-> 0]]

hashPassword(password) == btoa(Sha256(Utf8(password))).value

\* A comparison of the bytes the two base64 strings decode to.
verifyDecoded(password, hash) ==
    atob(hash).ok /\ atob(hash).value = Sha256(Utf8(password))

\* hashedInput === hash
verifyPassword(password, hash) == hashPassword(password) = hash

\* What the password_hash of user 1 may hold: nothing, the hash of either
\* password, and the hash of the first with the two bits its last character
\* does not use changed, or without its '='.
StoredHashes ==
    {NoHash, hashPassword(<<112>>), hashPassword(<<113>>), hashPassword(NoHash),
     [hashPassword(<<112>>) EXCEPT ![4 * ((TagBytes + 2) \div 3) - 1].x = 1],
     SubSeq(hashPassword(<<112>>), 1, 4 * ((TagBytes + 2) \div 3) - 1)}

\* A login that tells an unknown email from a wrong password.
LoginNamingUser(email, password, json) ==
    IF json /\ Truthy(email) /\ password # NoHash /\ UserByEmail(email) = {}
    THEN ErrorResponse(404, "User not found")
    ELSE ErrorResponse(401, "Invalid credentials")

\* The response of POST /auth/login; json is whether the body parses.
LoginResponse(email, password, json) ==
    IF ~json THEN ErrorResponse(500, "Login failed")
    ELSE IF ~Truthy(email) \/ password = NoHash
    THEN ErrorResponse(400, "Missing email or password")
    ELSE IF UserByEmail(email) = {} THEN ErrorResponse(401, "Invalid credentials")
    ELSE LET user == FirstOf(UserByEmail(email))
             token == UserTokens[env.JWT_SECRET, user.id, user.email]
         IN  IF user.password_hash = NoHash THEN ErrorResponse(401, "Invalid credentials")
             ELSE IF ~verifyPassword(password, user.password_hash)
             THEN ErrorResponse(401, "Invalid credentials")
             ELSE IF ~token.ok THEN ErrorResponse(500, "Login failed")
             ELSE [status |-> 200, token |-> token.value, user |-> UserView(user)]

\* A login that registers an email it does not know.
LoginRegistering(email, password, json) ==
    /\ Answer("Login", [email |-> email, password |-> password, json |-> json],
              LoginResponse(email, password, json))
    /\ IF json /\ Truthy(email) /\ UserByEmail(email) = {}
       THEN /\ users' = users \cup {NewUser(ids.user + 1, email)}
            /\ ids' = [ids EXCEPT !.user = @ + 1]
       ELSE UNCHANGED <<users, ids>>
    /\ UNCHANGED <<env, now, advances, otp_codes, organizations, organization_members,
                   agents, usage_records, websites, verified, granted>>

\* POST /auth/login: its one statement is SELECT * FROM users WHERE email = ?
Login(email, password, json) ==
    /\ Answer("Login", [email |-> email, password |-> password, json |-> json],
              LoginResponse(email, password, json))
    /\ UNCHANGED <<env, now, advances, store, ids, verified, granted>>

\* User 1 with some password_hash, user 2 with none; no route writes the column.
InitLogin ==
    /\ env = [JWT_SECRET |-> JWT_SECRET]
    /\ now \in StartTimes
    /\ advances = 0
    /\ users \in {{[NewUser(1, "a@x.io") EXCEPT !.password_hash = d],
                    [NewUser(2, "b@x.io") EXCEPT !.password_hash = NoHash]} :
                      d \in StoredHashes}
    /\ otp_codes = {}
    /\ organizations = {}
    /\ organization_members = {}
    /\ agents = {}
    /\ usage_records = {}
    /\ websites = {}
    /\ ids = [NoIds EXCEPT !.user = 2]
    /\ req = [s \in {1} |-> Idle]
    /\ last = NoResponse
    /\ verified = {}
    /\ granted = {}

\* Logins with the email of user 1, of user 2, of no user or none, and with
\* the password 'p', 'q' or none.
NextLogin ==
    \/ \E e \in {"a@x.io", "b@x.io", "c@x.io", NoValue}, p \in {<<112>>, <<113>>, NoHash},
          j \in BOOLEAN :
         Login(e, p, j)
    \/ \E d \in ClockSteps : Advance(d)
    \/ Deliver

SpecLogin == InitLogin /\ [][NextLogin]_vars

\* A login request with an email and a password, whose password is not the
\* one a registered user's hash was made from.
FailedLogin ==
    /\ last.op = "Login"
    /\ last.args.json
    /\ Truthy(last.args.email)
    /\ last.args.password # NoHash
    /\ \A u \in UserByEmail(last.args.email) :
          u.password_hash = NoHash \/ u.password_hash # hashPassword(last.args.password)

(* C19: a login with an email and a password that fails because no user has
   the email, because the user has no password hash, or because the password
   does not match, gets the one response 401 'Invalid credentials'. *)
C19_NoEnumeration ==
    FailedLogin => last.resp = ErrorResponse(401, "Invalid credentials")

C19_UnknownEmailRefused ==
    /\ FailedLogin
    /\ UserByEmail(last.args.email) = {}
    /\ \E u \in users : u.password_hash = hashPassword(last.args.password)
    /\ last.resp = ErrorResponse(401, "Invalid credentials")

(* C20: a login of a user with a password hash succeeds exactly when the
   stored string is character for character the hash of the password, at
   whatever time the hash was stored: hashPassword is a function of the
   plaintext, verifyPassword(p, hashPassword(p)) is true, and
   verifyPassword(p, d) is false for every other d. *)
C20_ExactHash ==
    (last.op = "Login" /\ last.args.json /\ Truthy(last.args.email)
       /\ last.args.password # NoHash)
      => \A u \in UserByEmail(last.args.email) :
           u.password_hash # NoHash
             => (last.resp.status = 200
                   <=> u.password_hash = hashPassword(last.args.password))

C20_NearHashRefused ==
    /\ last.op = "Login"
    /\ last.resp = ErrorResponse(401, "Invalid credentials")
    /\ advances > 0
    /\ \E u \in UserByEmail(last.args.email) :
          /\ u.password_hash # NoHash
          /\ u.password_hash # hashPassword(last.args.password)
          /\ atob(u.password_hash).value = atob(hashPassword(last.args.password)).value

-----------------------------------------------------------------------------
(* The three logins side by side *)

\* No user, or user 1 with the hash of the password 'p'; two codes sent to
\* a@x.io and not yet used; two requests in flight at once.
InitAuth ==
    /\ env = [JWT_SECRET |-> JWT_SECRET]
    /\ now \in StartTimes
    /\ advances = 0
    /\ users \in {{}, {[NewUser(1, "a@x.io") EXCEPT !.password_hash = hashPassword(<<112>>)]}}
    /\ otp_codes = {[id |-> k, email |-> "a@x.io", code |-> IF k = 1 THEN "123456" ELSE "654321",
                     expires_at |-> toISOString(now + OtpLifetimeMs), used |-> FALSE,
                     created_at |-> datetime(now)] : k \in 1..MaxOtp}
    /\ organizations = {}
    /\ organization_members = {}
    /\ agents = {}
    /\ usage_records = {}
    /\ websites = {}
    /\ ids = [NoIds EXCEPT !.otp = MaxOtp, !.user = Cardinality(users)]
    /\ req = [s \in Slots |-> Idle]
    /\ last = NoResponse
    /\ verified = {}
    /\ granted = {}

NextAuth ==
    \/ \E s \in DOMAIN req, x \in {"ok", "refused", "noinfo"}, e \in Emails \cup {NoValue} :
         Google(s, TRUE, "code", "uri", x, e)
    \/ \E s \in DOMAIN req, j \in BOOLEAN : Google(s, j, NoValue, "uri", "ok", "a@x.io")
    \/ \E s \in DOMAIN req : GoogleInsertUser(s)
    \/ \E e \in Emails, p \in {<<112>>, <<113>>} : Login(e, p, TRUE)
    \/ \E s \in DOMAIN req, c \in Codes : OtpVerify(s, "a@x.io", c)
    \/ \E s \in DOMAIN req : OtpVerifyMark(s)
    \/ \E s \in DOMAIN req : OtpVerifyFindUser(s)
    \/ \E s \in DOMAIN req : OtpVerifyInsertUser(s)
    \/ Deliver

SpecAuth == InitAuth /\ [][NextAuth]_vars

(* C21: a 200 of POST /auth/google, POST /auth/login or POST /auth/otp/verify
   comes with exactly one user row of the request's email in the store and
   with a token that verifies under JWT_SECRET to the userId and email of
   that row and nothing else. *)
C21_LoginPostcondition ==
    (last.op \in {"Google", "Login", "OtpVerify"} /\ last.resp.status = 200)
      => \E u \in users :
           /\ UserByEmail(last.args.email) = {u}
           /\ verifyJWT(last.resp.token, env.JWT_SECRET) = ClaimsFor(u.id, u.email)
           /\ last.resp.user = UserView(u)

C21_EachFlowLogsIn ==
    /\ last.op = "Login"
    /\ last.resp.status = 200
    /\ Cardinality(users) = 2
    /\ granted # {}
    /\ \E u \in users : u.name = "Ann"

(* C22: in every state at most one user row has a given email; no step
   removes or rewrites a row; and a 200 of POST /auth/google or POST
   /auth/otp/verify carries the id of the row of its email, which is the row
   that was there before the step whenever there was one, and a token with
   that id. *)
C22_FindOrCreate ==
    [][
        /\ \A u, v \in users' : u.email = v.email => u = v
        /\ users \subseteq users'
        /\ (last'.op \in {"Google", "OtpVerify"} /\ last'.resp.status = 200)
              => \E u \in users' :
                   /\ u.email = last'.args.email
                   /\ last'.resp.user.id = u.id
                   /\ verifyJWT(last'.resp.token, env.JWT_SECRET).userId
                          = ClaimsFor(u.id, u.email).userId
                   /\ (\E v \in users : v.email = u.email) => u \in users
    ]_vars

C22_RaceLost ==
    /\ last.op = "Google"
    /\ last.resp.status = 500
    /\ ~last.args.found
    /\ granted # {}
    /\ Cardinality({u \in users : u.email = last.args.email}) = 1

(* C27: no step removes a user row or changes a column of one other than
   password_hash. *)
C27_IdentityStable ==
    [][
        \A u \in users :
          \E v \in users' : v = [u EXCEPT !.password_hash = v.password_hash]
    ]_vars

C27_KeptAcrossLogins ==
    /\ last.op = "Google"
    /\ last.resp.status = 200
    /\ last.args.found
    /\ granted # {}
    /\ \E u \in users :
          u.email = last.args.email /\ u.name # "Ann" /\ u.password_hash # NoHash


-----------------------------------------------------------------------------
(* Refusals and store faults *)

\* The catch blocks of the handlers: console.error(...), then
\* c.json({ error: <the handler's message> }, 500).
authCatch ==
    [Google |-> "Authentication failed", Login |-> "Login failed",
     OtpRequest |-> "Failed to send OTP", OtpVerify |-> "OTP verification failed"]

organizationsCatch ==
    [GetOrg |-> "Failed to get organization", DeleteOrg |-> "Failed to delete organization"]

agentsCatch ==
    [GetAgent |-> "Failed to get agent", PutAgent |-> "Failed to update agent",
     DeleteAgent |-> "Failed to delete agent"]

websitesCatch ==
    [ListWebsites |-> "Failed to get websites", PostWebsite |-> "Failed to add website",
     DeleteWebsite |-> "Failed to delete website"]

\* What a statement on the store throws: an Error with the message of D1.
StoreErrors ==
    {"D1_ERROR: Network connection lost", "D1_ERROR: UNIQUE constraint failed: users.email"}

\* A catch that answers with the message of the error.
CatchExposing(op, error) == ErrorResponse(500, error)

Catch(op, error) ==
    ErrorResponse(500, (authCatch @@ organizationsCatch @@ agentsCatch @@ websitesCatch)[op])

\* A statement of the handler throws error: the first statement of a request
\* that has just come in (behind the middleware, for the routes of websites,
\* once next() is called), or the statement a request in flight is at.  The
\* statement has written nothing; the try block is left for the catch.
Fault(s, op, error) ==
    /\ \/ req[s] = Idle /\ op \notin DOMAIN websitesCatch
       \/ req[s] # Idle /\ req[s].op = op
    /\ Respond(s, op,
               (IF req[s] = Idle THEN <<>> ELSE req[s].args) @@ [fault |-> error],
               Catch(op, error))
    /\ UNCHANGED <<env, now, advances, store, ids, verified, granted>>

\* User 1 with a password, owner of organization 1, of its agent 1 and of
\* website 1; user 2 with none of these; the codes sent to user 1 and not yet
\* used; one request at a time.
InitErr ==
    /\ env = [JWT_SECRET |-> JWT_SECRET]
    /\ now \in StartTimes
    /\ advances = 0
    /\ users = {[NewUser(1, "a@x.io") EXCEPT !.password_hash = hashPassword(<<112>>)],
                NewUser(2, "b@x.io")}
    /\ otp_codes = {[id |-> k, email |-> "a@x.io", code |-> IF k = 1 THEN "123456" ELSE "654321",
                     expires_at |-> toISOString(now + OtpLifetimeMs), used |-> FALSE,
                     created_at |-> datetime(now)] : k \in 1..MaxOtp}
    /\ organizations = {[id |-> 1, name |-> "Acme", url_slug |-> <<"acme">>,
                         owner_id |-> 1]}
    /\ organization_members = {[id |-> 1, organization_id |-> 1, user_id |-> 1,
                                role |-> "owner"]}
    /\ agents = {[id |-> 1, organization_id |-> 1, name |-> "Bot"]}
    /\ usage_records = {}
    /\ websites = {[id |-> 1, user_id |-> 1, domain |-> "x.com"]}
    /\ ids = [NoIds EXCEPT !.otp = MaxOtp, !.user = 2, !.org = 1, !.member = 1, !.agent = 1,
                     !.website = MaxWebsites]
    /\ req = [s \in {1} |-> Idle]
    /\ last = NoResponse
    /\ verified = {}
    /\ granted = {}

NextErr ==
    \/ \E s \in DOMAIN req, h \in DOMAIN Headers, r \in Routes : authMiddleware(s, h, r)
    \/ \E s \in DOMAIN req : Handler(s)
    \/ \E s \in DOMAIN req : DeleteWebsiteRun(s)
    \/ \E e \in {"a@x.io", "c@x.io"}, p \in {<<112>>, <<113>>} : Login(e, p, TRUE)
    \/ \E s \in DOMAIN req : OtpRequest(s, "a@x.io")
    \/ \E s \in DOMAIN req, c \in Codes : OtpVerify(s, "a@x.io", c)
    \/ \E s \in DOMAIN req : OtpVerifyMark(s)
    \/ \E s \in DOMAIN req : OtpVerifyFindUser(s)
    \/ \E u \in UserIds, o \in {1, MaxOrgs + 1} : GetOrg(u, o)
    \/ \E s \in DOMAIN req, u \in UserIds, o \in {1, MaxOrgs + 1} : DeleteOrg(s, u, o)
    \/ \E s \in DOMAIN req : DeleteOrgRun(s)
    \/ \E u \in UserIds, a \in {1, MaxAgents + 1} : GetAgent(u, a)
    \/ \E s \in DOMAIN req, u \in UserIds, a \in {1, MaxAgents + 1} :
         PutAgent(s, u, a, TRUE, "Bolt")
    \/ \E s \in DOMAIN req : PutAgentUpdate(s)
    \/ \E s \in DOMAIN req, u \in UserIds, a \in {1, MaxAgents + 1} : DeleteAgent(s, u, a)
    \/ \E s \in DOMAIN req : DeleteAgentRun(s)
    \/ \E s \in DOMAIN req, error \in StoreErrors,
          op \in DOMAIN authCatch \cup DOMAIN organizationsCatch
                   \cup DOMAIN agentsCatch \cup DOMAIN websitesCatch :
         Fault(s, op, error)
    \/ Advance(OtpLifetimeMs + CooldownMs)
    \/ Deliver

SpecErr == InitErr /\ [][NextErr]_vars

(* C25: the refusals have fixed status codes: a request without a credential
   401, with an invalid credential (a token that does not verify, a wrong
   email or password) 401, with a code that is wrong, used or expired 401,
   for a code within the cooldown 429, and for an organization, agent or
   website that the caller has no access to 404, the same as for one that
   does not exist. *)
C25_Taxonomy ==
    [][
        (last = NoResponse /\ last' # NoResponse /\ "fault" \notin DOMAIN last'.args) =>
        LET op == last'.op
            a == last'.args
            r == last'.resp
            NoAccess(orgs) ==
                \A o \in orgs : ~IsOwnerOrMember(a.caller, o)
        IN
        /\ op = "authMiddleware" =>
             /\ a.header \notin BearerNames => r.status = 401
             /\ (a.header \in BearerNames /\ ClaimsOf[a.header] = Null) => r.status = 401
        /\ (op = "Login" /\ \A u \in UserByEmail(a.email) :
                               u.password_hash # hashPassword(a.password))
             => r.status = 401
        /\ (op = "OtpVerify" /\ req' = req /\ ValidOtps(a.email, a.otp) = {})
             => r.status = 401
        /\ (op = "OtpRequest" /\ RecentOtp(a.email) # {}) => r.status = 429
        /\ (op \in {"GetOrg", "DeleteOrg"} /\ NoAccess({o.id : o \in OrgById(a.id)}))
             => r.status = 404
        /\ (op \in {"GetAgent", "PutAgent", "DeleteAgent"}
              /\ NoAccess({g.organization_id : g \in AgentById(a.id)}))
             => r.status = 404
        /\ (op = "DeleteWebsite" /\ \A w \in websites : w.id = a.id => w.user_id # a.caller)
             => r.status = 404
    ]_vars

\* User 2 is refused the agent of user 1's organization as a missing one is,
\* after a code of user 1 has been used and website 1 deleted.
C25_DeniedLikeMissing ==
    /\ last.op = "DeleteAgent"
    /\ "fault" \notin DOMAIN last.args
    /\ last.args.caller = 2
    /\ AgentById(last.args.id) # {}
    /\ last.resp = ErrorResponse(404, "Agent not found or access denied")
    /\ granted # {}
    /\ websites = {}

(* C26: a statement on the store that throws, at whichever statement of
   whichever handler, ends the request with status 500 and the handler's own
   message, which has nothing of the error in it; the response is no refusal
   of the taxonomy (401, 404, 429), nothing of the store is changed by the
   step, and the request is over. *)
C26_FaultsRecovered ==
    [][
        /\ (last' # NoResponse /\ last = NoResponse /\ "fault" \in DOMAIN last'.args) =>
             /\ DOMAIN last'.resp = {"status", "error"}
             /\ last'.resp.status = 500
             /\ last'.resp.error \notin StoreErrors
             /\ \A s \in DOMAIN req : req'[s] = Idle
             /\ UNCHANGED store
        /\ (last' # NoResponse /\ last = NoResponse /\ last'.resp.status \in {401, 404, 429})
             => "fault" \notin DOMAIN last'.args
        /\ \A s \in DOMAIN req :
             (req[s] # Idle /\ req'[s] = Idle) => "status" \in DOMAIN last'.resp
    ]_vars

\* The lookup of the user throws after the code has been marked used.
C26_FaultAfterWrite ==
    /\ last.op = "OtpVerify"
    /\ "fault" \in DOMAIN last.args
    /\ last.resp = ErrorResponse(500, "OTP verification failed")
    /\ \E r \in otp_codes : r.used /\ r.code = last.args.otp /\ r.id \notin granted

-----------------------------------------------------------------------------
(* The OTP flows: binding, cooldown and what a used code has bought *)

(* C31: a verify passes its lookup, and so can return a token for its email,
   only if at that moment a record of that email and of the submitted code
   is there, unused and not past its lifetime; the record it then marks is
   that one, and its UPDATE changes the used flag of that record alone. *)
C31_BoundToEmail ==
    [][
        /\ \A s \in DOMAIN req :
              (req[s] = Idle /\ req'[s].op = "OtpVerify")
                => \E r \in otp_codes :
                     /\ r.id = req'[s].loc.otpRecord
                     /\ r.email = req'[s].args.email
                     /\ r.code = req'[s].args.otp
                     /\ ~r.used
                     /\ ~PastLifetime(r)
        /\ \A s \in DOMAIN req :
              (req[s].pc = "otpMark" /\ req'[s].pc = "otpFindUser")
                => /\ {r.id : r \in otp_codes' \ otp_codes} = {req[s].loc.otpRecord}
                   /\ \A r \in otp_codes' \ otp_codes : r.used
        /\ (last'.op = "OtpVerify" /\ last'.resp.status = 200)
              => \E s \in DOMAIN req :
                   /\ req[s].op = "OtpVerify"
                   /\ req[s].pc \in {"otpFindUser", "otpInsertUser"}
                   /\ last'.resp.user.email = req[s].args.email
    ]_vars

(* C32: of the OTP records of one email no two were issued within 60
   seconds of each other, however the requests for the email interleave
   (the instant a record was issued is its expiry less the lifetime). *)
C32_OnePerWindow ==
    \A r, q \in otp_codes :
        (r.email = q.email /\ r.id # q.id /\ ParseISO(r.expires_at) <= ParseISO(q.expires_at))
          => ParseISO(q.expires_at) - ParseISO(r.expires_at) >= CooldownMs

(* C33: a verify that has run its UPDATE, marking its code used, ends with
   a token: every response to a verify that is past its UPDATE is a 200. *)
C33_UsedYieldsToken ==
    [][
        \A s \in DOMAIN req :
            (/\ req[s].op = "OtpVerify"
             /\ req[s].pc \in {"otpFindUser", "otpInsertUser"}
             /\ req'[s] = Idle)
              => /\ last'.resp.status = 200
                 /\ \E r \in otp_codes' : r.id = req[s].loc.otpRecord /\ r.used
    ]_vars

-----------------------------------------------------------------------------
(* The password login: when it succeeds and what it writes *)

(* C34 as stated: a login returns a token exactly when a user has the email
   of the request, has a password hash, and the hash is hashPassword of the
   password of the request; no login changes the store. *)
C34_LoginIff ==
    [][
        (last'.op = "Login" /\ last'.args.json) =>
          /\ "token" \in DOMAIN last'.resp
               <=> \E u \in users :
                     /\ u.email = last'.args.email
                     /\ u.password_hash # NoHash
                     /\ u.password_hash = hashPassword(last'.args.password)
          /\ UNCHANGED <<store, ids>>
    ]_vars

(* C34: a login returns a token exactly when its body has an email and a
   password that are not empty, a user has that email and a password hash,
   and the hash is hashPassword of that password; every login, answered 200,
   400, 401 or 500, leaves every table as it was. *)
C34_LoginSucceeds ==
    [][
        last'.op = "Login" =>
          /\ "token" \in DOMAIN last'.resp
               <=> /\ last'.args.json
                   /\ Truthy(last'.args.email)
                   /\ last'.args.password # NoHash
                   /\ \E u \in users :
                        /\ u.email = last'.args.email
                        /\ u.password_hash # NoHash
                        /\ u.password_hash = hashPassword(last'.args.password)
          /\ "token" \in DOMAIN last'.resp
               => /\ last'.resp.status = 200
                  /\ \E u \in users : last'.resp.user = UserView(u)
                                        /\ u.email = last'.args.email
          /\ UNCHANGED <<store, ids>>
    ]_vars

\* The empty password is refused although the user's hash is the hash of it.
C34_EmptyPasswordRefused ==
    /\ last.op = "Login"
    /\ last.args.json
    /\ last.args.password = NoHash
    /\ last.resp = ErrorResponse(400, "Missing email or password")
    /\ \E u \in UserByEmail(last.args.email) :
          u.password_hash = hashPassword(last.args.password)

\* The three login routes from the empty store, one request at a time.
NextApi ==
    \/ \E s \in DOMAIN req, e \in Emails : OtpRequest(s, e)
    \/ \E s \in DOMAIN req : OtpRequestInsert(s)
    \/ \E s \in DOMAIN req, e \in Emails, c \in Codes : OtpVerify(s, e, c)
    \/ \E s \in DOMAIN req : OtpVerifyMark(s)
    \/ \E s \in DOMAIN req : OtpVerifyFindUser(s)
    \/ \E s \in DOMAIN req : OtpVerifyInsertUser(s)
    \/ \E s \in DOMAIN req, x \in {"ok", "refused"}, e \in Emails :
         Google(s, TRUE, "code", "uri", x, e)
    \/ \E s \in DOMAIN req : GoogleInsertUser(s)
    \/ \E e \in Emails \cup {NoValue}, p \in {<<112>>, NoHash}, j \in BOOLEAN : Login(e, p, j)
    \/ Deliver

SpecApi == InitOtpSeq /\ [][NextApi]_vars

(* C35: in every state reached from the empty store by requests to the
   login routes, no user has a password hash, no login has returned a
   token, and every login that carried an email and a password was answered
   401 'Invalid credentials'. *)
C35_NoPasswordLogin ==
    /\ \A u \in users : u.password_hash = NoHash
    /\ last.op = "Login" =>
         /\ "token" \notin DOMAIN last.resp
         /\ (last.args.json /\ Truthy(last.args.email) /\ last.args.password # NoHash)
              => last.resp = ErrorResponse(401, "Invalid credentials")

\* A user created by the Google flow and one created by an OTP login, and
\* the login of one of them refused.
C35_RegisteredButRefused ==
    /\ last.op = "Login"
    /\ last.args.json
    /\ last.args.password # NoHash
    /\ UserByEmail(last.args.email) # {}
    /\ last.resp = ErrorResponse(401, "Invalid credentials")
    /\ \E u, v \in users : u.name = "Ann" /\ v.name # "Ann"
    /\ granted # {}

-----------------------------------------------------------------------------
(* Creations and updates of organizations, two requests at a time *)

NextSlug ==
    \/ \E s \in DOMAIN req, u \in UserIds : PostOrg(s, u, "Acme", NoSlug)
    \/ \E s \in DOMAIN req : PostOrgInsert(s)
    \/ \E s \in DOMAIN req : PostOrgInsertMember(s)
    \/ \E s \in DOMAIN req, u \in UserIds, o \in OrgIds,
          g \in {Slugify(n) : n \in OrgNames \cup NewOrgNames} :
         PutOrg(s, u, o, TRUE, NoValue, g)
    \/ \E s \in DOMAIN req : PutOrgSlugCheck(s)
    \/ \E s \in DOMAIN req : PutOrgUpdate(s)
    \/ Deliver

SpecSlug == InitWeb /\ [][NextSlug]_vars

(* C36 as stated: no two organizations share a url_slug; a create whose
   slug is taken stores the slug with a suffix; an owner's update to a slug
   that another organization has is answered 409 and changes nothing. *)
C36_SlugsUnique ==
    [][
        /\ \A o, p \in organizations' : o.id # p.id => o.url_slug # p.url_slug
        /\ \A s \in DOMAIN req :
              (/\ req[s].pc = "orgInsert"
               /\ req'[s] # req[s]
               /\ OrgBySlug(Slugify(req[s].args.name)) # {})
                => \E o \in organizations' \ organizations :
                     /\ Len(o.url_slug) = Len(Slugify(req[s].args.name)) + 1
                     /\ SubSeq(o.url_slug, 1, Len(o.url_slug) - 1)
                          = Slugify(req[s].args.name)
        /\ (/\ last = NoResponse
            /\ last'.op = "PutOrg"
            /\ OwnedOrg(last'.args.id, last'.args.caller) # {}
            /\ SlugTakenByOther(last'.args.url_slug, last'.args.id) # {})
              => /\ last'.resp.status = 409
                 /\ organizations' = organizations
    ]_vars

(* C36: no two organizations share a url_slug; a create that finds its slug
   taken goes on with the slug and a suffix, one that finds it free with the
   slug itself, and its INSERT stores that slug or, when by then another
   organization has it, stores nothing and is answered 500; an owner's
   update that finds its slug with another organization is answered 409, one
   whose UPDATE finds it there is answered 500, and both change nothing. *)
C36_SlugsStayUnique ==
    [][
        /\ \A o, p \in organizations' : o.id # p.id => o.url_slug # p.url_slug
        /\ \A s \in DOMAIN req :
              (req[s] = Idle /\ req'[s].pc = "orgInsert")
                => LET slug == Slugify(req'[s].args.name)
                       stored == req'[s].loc.slug
                   IN  IF OrgBySlug(slug) = {} THEN stored = slug
                       ELSE /\ Len(stored) = Len(slug) + 1
                            /\ SubSeq(stored, 1, Len(slug)) = slug
        /\ \A s \in DOMAIN req :
              (req[s].pc = "orgInsert" /\ req'[s] # req[s])
                => IF OrgBySlug(req[s].loc.slug) # {}
                   THEN /\ organizations' = organizations
                        /\ last'.resp = ErrorResponse(500, "Failed to create organization")
                   ELSE \E o \in organizations' :
                          /\ organizations' \ {o} = organizations
                          /\ o \notin organizations
                          /\ o.url_slug = req[s].loc.slug
                          /\ o.owner_id = req[s].args.caller
        /\ \A s \in DOMAIN req :
              (/\ req[s].pc \in {"putOrgSlug", "putOrgUpdate"}
               /\ req'[s] # req[s]
               /\ OrgById(req[s].args.id) # {}
               /\ SlugTakenByOther(req[s].args.url_slug, req[s].args.id) # {})
                => /\ organizations' = organizations
                   /\ last'.resp = (IF req[s].pc = "putOrgSlug"
                                    THEN ErrorResponse(409, "URL slug already in use")
                                    ELSE ErrorResponse(500, "Failed to update organization"))
    ]_vars

\* Two updates to one free slug, both past their check: the second to write
\* is refused by the UNIQUE column.
C36_UpdateRaceLost ==
    /\ last.op = "PutOrg"
    /\ last.resp = ErrorResponse(500, "Failed to update organization")
    /\ \E o \in organizations : o.url_slug = last.args.url_slug /\ o.id # last.args.id
    /\ \E o \in organizations : o.id = last.args.id /\ Len(o.url_slug) = 2

-----------------------------------------------------------------------------
(* What is left of a deleted organization *)

\* Two organizations, an agent of the first, one request at a time: the
\* deletions, and every route that reads an organization or an agent.
NextGone ==
    \/ \E s \in DOMAIN req, u \in UserIds, o \in OrgIds : DeleteOrg(s, u, o)
    \/ \E s \in DOMAIN req : DeleteOrgRun(s)
    \/ \E o \in OrgIds, u \in UserIds : SeedMember(o, u, "member")
    \/ \E o \in OrgIds, a \in AgentIds : SeedUsage(o, a, 1, 1)
    \/ \E u \in UserIds : ListOrgs(u)
    \/ \E u \in UserIds, o \in OrgIds : GetOrg(u, o)
    \/ \E u \in UserIds, o \in OrgIds \cup {NoId} : ListAgents(u, o)
    \/ \E u \in UserIds, a \in AgentIds : GetAgent(u, a)
    \/ \E s \in DOMAIN req, u \in UserIds, a \in AgentIds, n \in NewAgentNames :
         PutAgent(s, u, a, TRUE, n)
    \/ \E s \in DOMAIN req : PutAgentUpdate(s)
    \/ \E s \in DOMAIN req, u \in UserIds, a \in AgentIds : DeleteAgent(s, u, a)
    \/ \E s \in DOMAIN req : DeleteAgentRun(s)
    \/ \E s \in DOMAIN req, u \in UserIds, o \in OrgIds :
         UsageSummary(s, u, o, NoDate, NoDate)
    \/ \E s \in DOMAIN req : UsageSummaryCredits(s)
    \/ \E s \in DOMAIN req : UsageSummaryAgents(s)
    \/ \E s \in DOMAIN req, u \in UserIds, o \in OrgIds :
         UsageHistory(s, u, o, NoDate, NoDate)
    \/ \E s \in DOMAIN req : UsageHistoryQuery(s)
    \/ \E s \in DOMAIN req, u \in UserIds, o \in OrgIds :
         UsageByAgent(s, u, o, NoDate, NoDate)
    \/ \E s \in DOMAIN req : UsageByAgentQuery(s)
    \/ Deliver

SpecGone == InitUsage /\ [][NextGone]_vars

(* C37: the owner's DELETE of an organization removes, in the one step, the
   organization, its membership rows and its agents; no membership row and
   no agent is ever left without its organization; and from then on a GET,
   a PUT with a JSON body or a DELETE of an agent that is gone, and a GET, a
   DELETE or a usage request of an organization that is gone, is answered
   404 whoever the caller, and the lists hold only rows that are there. *)
C37_DeletedOrgGone ==
    [][
        /\ (last = NoResponse /\ last'.op = "DeleteOrg" /\ last'.resp.status = 200)
              => LET o == last'.args.id IN
                 /\ OwnedOrg(o, last'.args.caller) # {}
                 /\ organizations' = {x \in organizations : x.id # o}
                 /\ organization_members' =
                        {m \in organization_members : m.organization_id # o}
                 /\ agents' = {a \in agents : a.organization_id # o}
        /\ \A a \in agents' : \E o \in organizations' : o.id = a.organization_id
        /\ \A m \in organization_members' :
              \E o \in organizations' : o.id = m.organization_id
        /\ (last = NoResponse /\ last' # NoResponse /\ req' = req)
              => LET op == last'.op
                     a == last'.args
                     r == last'.resp
                 IN
                 /\ (op \in {"GetAgent", "PutAgent", "DeleteAgent"} /\ AgentById(a.id) = {})
                       => r.status = 404
                 /\ (op \in UsageOps \cup {"GetOrg", "DeleteOrg"} /\ OrgById(a.id) = {})
                       => r.status = 404
                 /\ op = "ListAgents" => DOMAIN r.agents \subseteq agents
                 /\ op = "ListOrgs" => DOMAIN r.organizations \subseteq organizations
    ]_vars

\* The former owner of the deleted organization 1, by now a member of
\* organization 2, is refused the agent that went with organization 1.
C37_FormerOwnerRefused ==
    /\ last.op = "PutAgent"
    /\ last.args.caller = 1
    /\ last.resp = ErrorResponse(404, "Agent not found or access denied")
    /\ OrgById(1) = {}
    /\ agents = {}
    /\ \E m \in organization_members : m.user_id = 1 /\ m.organization_id = 2

-----------------------------------------------------------------------------
(* Whose a row is, over every route that writes *)

\* Every route with an UPDATE or a DELETE, and the creation of websites, one
\* request at a time over two organizations of two owners and an agent of
\* the first.
NextOwn ==
    \/ \E s \in DOMAIN req, u \in UserIds, o \in OrgIds, n \in NewOrgNames \cup {NoValue},
          g \in {Slugify(m) : m \in NewOrgNames} \cup {NoSlug} : PutOrg(s, u, o, TRUE, n, g)
    \/ \E s \in DOMAIN req : PutOrgSlugCheck(s)
    \/ \E s \in DOMAIN req : PutOrgUpdate(s)
    \/ \E s \in DOMAIN req, u \in UserIds, o \in OrgIds : DeleteOrg(s, u, o)
    \/ \E s \in DOMAIN req : DeleteOrgRun(s)
    \/ \E o \in OrgIds, u \in UserIds : SeedMember(o, u, "member")
    \/ \E s \in DOMAIN req, u \in UserIds, a \in AgentIds, n \in NewAgentNames :
         PutAgent(s, u, a, TRUE, n)
    \/ \E s \in DOMAIN req : PutAgentUpdate(s)
    \/ \E s \in DOMAIN req, u \in UserIds, a \in AgentIds : DeleteAgent(s, u, a)
    \/ \E s \in DOMAIN req : DeleteAgentRun(s)
    \/ \E s \in DOMAIN req, u \in UserIds : PostWebsite(s, u, "x.com")
    \/ \E s \in DOMAIN req : PostWebsiteInsert(s)
    \/ \E s \in DOMAIN req, u \in UserIds, w \in WebsiteIds : DeleteWebsite(s, u, w)
    \/ \E s \in DOMAIN req : DeleteWebsiteRun(s)
    \/ Deliver

SpecOwn == InitUsage /\ [][NextOwn]_vars

(* C38: no step of any route changes the owner_id of an organization that  *)
(* stays, the organization_id of an agent that stays or the user_id of a   *)
(* website that stays; the UPDATE of PUT /organizations/:id changes the    *)
(* name and url_slug of the organization named in the path and nothing     *)
(* else in any table, and the UPDATE of PUT /agents/:id the name of the    *)
(* agent named in the path and nothing else.                               *)
C38_LinksImmutable ==
    [][
        /\ \A o \in organizations, p \in organizations' :
               p.id = o.id => p.owner_id = o.owner_id
        /\ \A a \in agents, b \in agents' :
               b.id = a.id => b.organization_id = a.organization_id
        /\ \A w \in websites, x \in websites' :
               x.id = w.id => x.user_id = w.user_id
        /\ \A s \in DOMAIN req :
               (req[s].pc = "putOrgUpdate" /\ req'[s] = Idle)
                   => /\ \A o \in organizations :
                          \E p \in organizations' :
                              /\ p.id = o.id
                              /\ p = [o EXCEPT !.name = p.name, !.url_slug = p.url_slug]
                              /\ o.id # req[s].args.id => p = o
                      /\ Cardinality(organizations') = Cardinality(organizations)
                      /\ UNCHANGED <<users, organization_members, agents, websites,
                                     usage_records>>
        /\ \A s \in DOMAIN req :
               (req[s].pc = "putAgentUpdate" /\ req'[s] = Idle)
                   => /\ \A a \in agents :
                          \E b \in agents' :
                              /\ b.id = a.id
                              /\ b = [a EXCEPT !.name = b.name]
                              /\ a.id # req[s].args.id => b = a
                      /\ Cardinality(agents') = Cardinality(agents)
                      /\ UNCHANGED <<users, organizations, organization_members, websites,
                                     usage_records>>
    ]_vars

\* User 2, a member of user 1's organization, has renamed its agent after
\* user 1 renamed the organization and changed its slug.
C38_MemberRenamedAgent ==
    /\ last.op = "PutAgent"
    /\ last.args.caller = 2
    /\ last.resp.status = 200
    /\ last.resp.agent.organization_id = 1
    /\ \E o \in organizations :
           o.id = 1 /\ o.owner_id = 1 /\ o.name \in NewOrgNames /\ o.url_slug # <<"acme">>
    /\ \E w \in websites : w.user_id = 2

-----------------------------------------------------------------------------
(* The domains of websites, two requests at a time *)

(* C39 as stated: no two websites share a domain; a POST /websites whose   *)
(* domain a website has is answered 409 and adds no row; a POST answered   *)
(* 201 has added one website, of the caller and with the domain given.     *)
C39_DomainsUnique ==
    [][
        /\ \A w, x \in websites' : w.id # x.id => w.domain # x.domain
        /\ (/\ last = NoResponse
            /\ last'.op = "PostWebsite"
            /\ WebsiteByDomain(last'.args.domain) # {})
              => /\ last'.resp.status = 409
                 /\ websites' = websites
        /\ (/\ last = NoResponse
            /\ last'.op = "PostWebsite"
            /\ last'.resp.status = 201)
              => /\ websites' \ websites = {last'.resp.website}
                 /\ websites \subseteq websites'
                 /\ last'.resp.website.user_id = last'.args.caller
                 /\ last'.resp.website.domain = last'.args.domain
    ]_vars

(* C39: no two websites share a domain; a POST /websites that finds a      *)
(* website with its domain when it checks is answered 409, and only such a *)
(* POST is; one whose domain a website has only by the time of its INSERT  *)
(* is answered 500; neither adds a row; a POST answered 201 has added one  *)
(* website, of the caller and with the domain given.                       *)
C39_DomainsStayUnique ==
    [][
        /\ \A w, x \in websites' : w.id # x.id => w.domain # x.domain
        /\ (/\ last = NoResponse
            /\ last'.op = "PostWebsite"
            /\ WebsiteByDomain(last'.args.domain) # {})
              => /\ websites' = websites
                 /\ last'.resp = IF req' = req
                                 THEN ErrorResponse(409, "Domain already exists")
                                 ELSE ErrorResponse(500, "Failed to add website")
        /\ (/\ last = NoResponse
            /\ last'.op = "PostWebsite"
            /\ last'.resp.status = 409)
              => /\ req' = req
                 /\ WebsiteByDomain(last'.args.domain) # {}
        /\ (/\ last = NoResponse
            /\ last'.op = "PostWebsite"
            /\ last'.resp.status = 201)
              => /\ websites' \ websites = {last'.resp.website}
                 /\ websites \subseteq websites'
                 /\ last'.resp.website.user_id = last'.args.caller
                 /\ last'.resp.website.domain = last'.args.domain
    ]_vars

\* The loser of two concurrent POSTs of one domain by two users.
C39_RegistrationRaceLost ==
    /\ last.op = "PostWebsite"
    /\ last.resp = ErrorResponse(500, "Failed to add website")
    /\ \E w \in websites : w.domain = last.args.domain /\ w.user_id # last.args.caller

=============================================================================
